---------------------------- MODULE Spec2Model ----------------------------
(***************************************************************************)
(* purple-proxy: the Reading store (monitor.py, class Database), the       *)
(* averaging of a window of Readings (Service.compute_avg) and the         *)
(* sampling loop (Service.do_loop, Service.compute_next_event).            *)
(*                                                                         *)
(* Conventions                                                             *)
(*   - An Optional value is a sequence: None is << >>, a present value v   *)
(*     is <<v>>.                                                           *)
(*   - A Python float is an exact rational <<num, den>> (den > 0, lowest   *)
(*     terms) counted in units of 10^-6, so '%f' (six decimals) rounds it  *)
(*     to a whole number of units.                                         *)
(*   - time_of_reading is a whole number of seconds (the device reports    *)
(*     whole seconds); int(r.time_of_reading.timestamp()) is then the      *)
(*     value itself.                                                       *)
(*   - The clock (time.time(), datetime.now()) is an exact rational        *)
(*     <<num, den>> of seconds.                                            *)
(***************************************************************************)
EXTENDS Integers, Sequences, FiniteSets, TLC

VARIABLES
    tblReading,     \* rows of table Reading
    tblSensor,      \* rows of table Sensor
    lastSaved,      \* per tier: the Reading of the last successful save_reading
    op,             \* the last Database call and what it returned
    readings,       \* the list handed to compute_avg
    avg_reading,    \* what compute_avg returned for `readings` (None before the call)
    now,            \* the clock
    cfg,            \* pollfreq_secs, pollfreq_offset, arcint_secs of the Service
    first_time,     \* do_loop: first_time
    session,        \* do_loop: session (None or an open requests.Session)
    archive_readings,       \* do_loop: archive_readings
    two_minute_readings,    \* do_loop: two_minute_readings
    it,             \* what the last pass of do_loop's while loop did
    next_event,     \* what compute_next_event returned last (None before a call)
    collected,      \* the last collect_data call: the attempts and how it ended
    served,         \* the last request line given to Handler.do_GET and how it ended
    txn,            \* the write transaction save_reading has open, statement by statement
    seen,           \* what a fetch on another connection returned while it was open
    heap,           \* the Reading objects alive: an object's reference is its index
    held,           \* the references a list of Readings holds, in list order
    averaged        \* the last compute_avg call on `held`: the heap before and after

storeVars == <<tblReading, tblSensor, lastSaved, op>>
avgVars == <<readings, avg_reading>>
loopVars == <<first_time, session, archive_readings, two_minute_readings, it>>
clockVars == <<now, cfg, next_event>>
restVars == <<collected, served, txn, seen, heap, held, averaged>>

vars == <<storeVars, avgVars, loopVars, clockVars, restVars>>

(***************************************************************************)
(* Bounds                                                                  *)
(***************************************************************************)
MaxTs == 2          \* timestamps 1..MaxTs
MaxLimit == 1       \* LIMIT values 1..MaxLimit
MaxWindow == 3      \* longest list handed to compute_avg

(***************************************************************************)
(* Program constants                                                       *)
(***************************************************************************)
CURRENT == 0
ARCHIVE == 1
TWO_MINUTE == 2
Sensor_A == 0
Sensor_B == 1

RecordTypes == {CURRENT, ARCHIVE, TWO_MINUTE}

None == << >>
Some(v) == <<v>>
IsNone(o) == o = << >>
Val(o) == o[1]

(***************************************************************************)
(* Arithmetic                                                              *)
(***************************************************************************)
Abs(i) == IF i < 0 THEN -i ELSE i

RECURSIVE GCD(_, _)
GCD(a, b) == IF b = 0 THEN a ELSE GCD(b, a % b)

\* a rational in lowest terms
Frac(n, d) == LET g == GCD(Abs(n), d) IN <<n \div g, d \div g>>

F(n) == <<n, 1>>

\* float + float
FAdd(x, y) == Frac(x[1] * y[2] + y[1] * x[2], x[2] * y[2])

\* float / count
FDiv(x, count) == Frac(x[1], x[2] * count)

\* '%f' % x read back as a REAL: x rounded to six decimals, i.e. to a whole
\* number of units (round-half-even on the exact value, as printf does).
PctF(x) ==
    LET q == x[1] \div x[2]
        twiceRem == 2 * (x[1] - q * x[2])
    IN  IF twiceRem < x[2] THEN F(q)
        ELSE IF twiceRem > x[2] THEN F(q + 1)
        ELSE IF q % 2 = 0 THEN F(q) ELSE F(q + 1)

\* '%d' % i for an int i read back as an INTEGER
PctD(i) == i

\* int(x / count + 0.5) for an int x: int() truncates toward zero
IntHalfUp(x, count) ==
    LET num == 2 * x + count
        den == 2 * count
    IN  IF num >= 0 THEN num \div den ELSE -((-num) \div den)

\* floor(x / count + 0.5)
FloorHalfUp(x, count) == (2 * x + count) \div (2 * count)

(***************************************************************************)
(* Reading model and the sample Readings the operations are driven with    *)
(***************************************************************************)
RGB(red, green, blue) == [red |-> red, green |-> green, blue |-> blue]

\* A SensorData whose fourteen fields all differ: floats f, f+1, ... each
\* shifted by the fraction d, AQI a and indicator (a+1, a+2, a+3).
MkSensor(f, d, a) ==
    [pm1_0_cf_1  |-> FAdd(F(f), d),      pm1_0_atm  |-> FAdd(F(f + 1), d),
     pm2_5_cf_1  |-> FAdd(F(f + 2), d),  pm2_5_atm  |-> FAdd(F(f + 3), d),
     pm10_0_cf_1 |-> FAdd(F(f + 4), d),  pm10_0_atm |-> FAdd(F(f + 5), d),
     p_0_3_um    |-> FAdd(F(f + 6), d),  p_0_5_um   |-> FAdd(F(f + 7), d),
     p_1_0_um    |-> FAdd(F(f + 8), d),  p_2_5_um   |-> FAdd(F(f + 9), d),
     p_5_0_um    |-> FAdd(F(f + 10), d), p_10_0_um  |-> FAdd(F(f + 11), d),
     pm2_5_aqi   |-> a,
     p25aqic     |-> RGB(a + 1, a + 2, a + 3)]

\* Sample Readings, by kind:
\*   1  single sensor, no secondary suite, floats with at most six decimals
\*   2  dual sensor, full secondary suite, temperature and dewpoint below zero
\*   3  kind 1 with every float carrying a seventh decimal (e.g. an average
\*      of three samples)
\*   4  dual sensor, gas_680 present and the other four suite fields absent
\*   5  kind 1 with current_temp_f_680 present and gas_680 absent
\*   6  dual sensor, no secondary suite, odd integers
\*   7  kind 6 with sensor B reading more than twenty times sensor A (only
\*      the device sends it; it is not among the Readings of the other parts)
Kinds == 1..6

Third == <<1, 3>>

Sample(kind, ts) ==
    LET dual  == kind \in {2, 4, 6, 7}
        d     == IF kind = 3 THEN Third ELSE F(0)
        i     == CASE kind = 2 -> -3
                   [] kind \in {6, 7} -> 7
                   [] OTHER    -> 10
        f     == IF dual THEN 40 ELSE 20
    IN  [time_of_reading        |-> ts,
         current_temp_f         |-> i,
         current_humidity       |-> Abs(i) + 1,
         current_dewpoint_f     |-> i - 2,
         pressure               |-> FAdd(F(f - 1), d),
         current_temp_f_680     |-> IF kind \in {2, 5} THEN Some(i + 3) ELSE None,
         current_humidity_680   |-> IF kind = 2 THEN Some(Abs(i) + 4) ELSE None,
         current_dewpoint_f_680 |-> IF kind = 2 THEN Some(i - 5) ELSE None,
         pressure_680           |-> IF kind = 2 THEN Some(F(f - 2)) ELSE None,
         gas_680                |-> IF kind \in {2, 4} THEN Some(F(f - 3)) ELSE None,
         sensor                 |-> MkSensor(f, d, Abs(i) + 6),
         sensor_b               |-> IF dual
                                    THEN Some(MkSensor(IF kind = 7 THEN 1000 ELSE f + 12,
                                                       d, Abs(i) + 10))
                                    ELSE None]

Timestamps == 1..MaxTs

\* Readings handed to compute_avg
Readings == {Sample(k, ts) : k \in Kinds, ts \in Timestamps}

\* Readings handed to save_reading (kinds 5 and 6 are left to the averaging)
StoreKinds == 1..4
StoreReadings == {Sample(k, ts) : k \in StoreKinds, ts \in Timestamps}

\* the five secondary-suite fields of a Reading, as Optionals
Suite(r) == <<r.current_temp_f_680, r.current_humidity_680,
              r.current_dewpoint_f_680, r.pressure_680, r.gas_680>>
SuiteAllPresent(r) == \A k \in 1..5 : ~IsNone(Suite(r)[k])
SuiteAllAbsent(r)  == \A k \in 1..5 : IsNone(Suite(r)[k])

(***************************************************************************)
(* Database: tables Reading and Sensor                                     *)
(***************************************************************************)
\* The row that insert_reading_sql inserts, or None when the statement is
\* never assigned (gas_680 present with another suite field absent: the
\* later cursor.execute(insert_reading_sql) then raises).  Columns left out
\* of the column list are NULL.
insert_reading_sql(record_type, stamp, r) ==
    IF IsNone(r.gas_680)
    THEN Some([record_type            |-> PctD(record_type),
               timestamp              |-> PctD(stamp),
               current_temp_f         |-> PctD(r.current_temp_f),
               current_humidity       |-> PctD(r.current_humidity),
               current_dewpoint_f     |-> PctD(r.current_dewpoint_f),
               pressure               |-> PctF(r.pressure),
               current_temp_f_680     |-> None,
               current_humidity_680   |-> None,
               current_dewpoint_f_680 |-> None,
               pressure_680           |-> None,
               gas_680                |-> None])
    ELSE IF /\ ~IsNone(r.current_temp_f_680)
            /\ ~IsNone(r.current_humidity_680)
            /\ ~IsNone(r.current_dewpoint_f_680)
            /\ ~IsNone(r.pressure_680)
    THEN Some([record_type            |-> PctD(record_type),
               timestamp              |-> PctD(stamp),
               current_temp_f         |-> PctD(r.current_temp_f),
               current_humidity       |-> PctD(r.current_humidity),
               current_dewpoint_f     |-> PctD(r.current_dewpoint_f),
               pressure               |-> PctF(r.pressure),
               current_temp_f_680     |-> Some(PctD(Val(r.current_temp_f_680))),
               current_humidity_680   |-> Some(PctD(Val(r.current_humidity_680))),
               current_dewpoint_f_680 |-> Some(PctD(Val(r.current_dewpoint_f_680))),
               pressure_680           |-> Some(PctF(Val(r.pressure_680))),
               gas_680                |-> Some(PctF(Val(r.gas_680)))])
    ELSE None

\* The row that save_sensor inserts.
insert_sensor_sql(record_type, stamp, sensor_number, sensor) ==
    [record_type  |-> PctD(record_type),
     timestamp    |-> PctD(stamp),
     sensor       |-> PctD(sensor_number),
     pm1_0_cf_1   |-> PctF(sensor.pm1_0_cf_1),
     pm1_0_atm    |-> PctF(sensor.pm1_0_atm),
     pm2_5_cf_1   |-> PctF(sensor.pm2_5_cf_1),
     pm2_5_atm    |-> PctF(sensor.pm2_5_atm),
     pm10_0_cf_1  |-> PctF(sensor.pm10_0_cf_1),
     pm10_0_atm   |-> PctF(sensor.pm10_0_atm),
     p_0_3_um     |-> PctF(sensor.p_0_3_um),
     p_0_5_um     |-> PctF(sensor.p_0_5_um),
     p_1_0_um     |-> PctF(sensor.p_1_0_um),
     p_2_5_um     |-> PctF(sensor.p_2_5_um),
     p_5_0_um     |-> PctF(sensor.p_5_0_um),
     p_10_0_um    |-> PctF(sensor.p_10_0_um),
     pm2_5_aqi    |-> PctD(sensor.pm2_5_aqi),
     p25aqi_red   |-> PctD(sensor.p25aqic.red),
     p25aqi_green |-> PctD(sensor.p25aqic.green),
     p25aqi_blue  |-> PctD(sensor.p25aqic.blue)]

\* PRIMARY KEY (record_type, timestamp) of table Reading
ReadingKeyTaken(rows, row) ==
    \E x \in rows : x.record_type = row.record_type /\ x.timestamp = row.timestamp

\* PRIMARY KEY (record_type, timestamp, sensor) of table Sensor
SensorKeyTaken(rows, row) ==
    \E x \in rows : /\ x.record_type = row.record_type
                    /\ x.timestamp = row.timestamp
                    /\ x.sensor = row.sensor

\* One INSERT INTO Sensor on the open cursor: the table afterwards, and
\* whether the statement raised (primary key taken).
save_sensor(sensorRows, record_type, stamp, sensor_number, sensor) ==
    LET row == insert_sensor_sql(record_type, stamp, sensor_number, sensor)
    IN  IF SensorKeyTaken(sensorRows, row)
        THEN [rows |-> sensorRows, raised |-> TRUE]
        ELSE [rows |-> sensorRows \cup {row}, raised |-> FALSE]

\* DELETE FROM <table> where record_type = <record_type>
DeleteTier(rows, record_type) == {x \in rows : x.record_type # record_type}

\* DeletesTier with the tier test lost: every save deletes its tier first
DeletesAnyTier(record_type) == record_type \in RecordTypes

\* the tiers whose previous rows save_reading deletes before it inserts
DeletesTier(record_type) == record_type = CURRENT \/ record_type = TWO_MINUTE

\* save_reading on the database d = [Reading, Sensor]: the database after
\* the call and whether the call raised.  Everything runs in one
\* transaction (with sqlite3.connect(...) as conn): it is committed when
\* the block ends and rolled back when a statement raises.
save_reading(d, record_type, r) ==
    LET stamp    == r.time_of_reading
        sql      == insert_reading_sql(record_type, stamp, r)
        deleting == DeletesTier(record_type)
        reading0 == IF deleting THEN DeleteTier(d.Reading, record_type) ELSE d.Reading
        sensor0  == IF deleting THEN DeleteTier(d.Sensor, record_type) ELSE d.Sensor
        rollback == [Reading |-> d.Reading, Sensor |-> d.Sensor, raised |-> TRUE]
    IN  IF IsNone(sql) THEN rollback
        ELSE IF ReadingKeyTaken(reading0, Val(sql)) THEN rollback
        ELSE LET reading1 == reading0 \cup {Val(sql)}
                 a        == save_sensor(sensor0, record_type, stamp, 0, r.sensor)
             IN  IF a.raised THEN rollback
                 ELSE IF IsNone(r.sensor_b)
                 THEN [Reading |-> reading1, Sensor |-> a.rows, raised |-> FALSE]
                 ELSE LET b == save_sensor(a.rows, record_type, stamp, 1, Val(r.sensor_b))
                      IN  IF b.raised THEN rollback
                          ELSE [Reading |-> reading1, Sensor |-> b.rows, raised |-> FALSE]

\* One row of the SELECT's join, as the 27-column tuple row[0..26] of the
\* code; Col(row, i) is row[i].
JoinRow(rr, sr) ==
    <<rr.timestamp, rr.current_temp_f, rr.current_humidity, rr.current_dewpoint_f,
      rr.pressure, rr.current_temp_f_680, rr.current_humidity_680,
      rr.current_dewpoint_f_680, rr.pressure_680, rr.gas_680, sr.sensor,
      sr.pm1_0_cf_1, sr.pm1_0_atm, sr.pm2_5_cf_1, sr.pm2_5_atm, sr.pm10_0_cf_1,
      sr.pm10_0_atm, sr.p_0_3_um, sr.p_0_5_um, sr.p_1_0_um, sr.p_2_5_um,
      sr.p_5_0_um, sr.p_10_0_um, sr.pm2_5_aqi, sr.p25aqi_red, sr.p25aqi_green,
      sr.p25aqi_blue>>

Col(row, i) == row[i + 1]

\* SelectRows with an inclusive lower bound (>= for >)
SelectRows_since_inclusive(d, record_type, since_ts, max_ts) ==
    {JoinRow(rr, sr) : <<rr, sr>> \in
        {p \in d.Reading \X d.Sensor :
            /\ p[1].record_type = record_type
            /\ p[2].record_type = record_type
            /\ p[1].timestamp = p[2].timestamp
            /\ p[1].timestamp >= since_ts
            /\ (IsNone(max_ts) \/ p[1].timestamp <= Val(max_ts))}}

\* SelectRows joining a Reading row with the Sensor rows of every tier
\* (Sensor.record_type not compared)
SelectRows_sensor_of_any_tier(d, record_type, since_ts, max_ts) ==
    {JoinRow(rr, sr) : <<rr, sr>> \in
        {p \in d.Reading \X d.Sensor :
            /\ p[1].record_type = record_type
            /\ p[1].timestamp = p[2].timestamp
            /\ p[1].timestamp > since_ts
            /\ (IsNone(max_ts) \/ p[1].timestamp <= Val(max_ts))}}

\* FROM Reading, Sensor WHERE ... : the rows the SELECT returns, unordered
SelectRows(d, record_type, since_ts, max_ts) ==
    {JoinRow(rr, sr) : <<rr, sr>> \in
        {p \in d.Reading \X d.Sensor :
            /\ p[1].record_type = record_type
            /\ p[2].record_type = record_type
            /\ p[1].timestamp = p[2].timestamp
            /\ p[1].timestamp > since_ts
            /\ (IsNone(max_ts) \/ p[1].timestamp <= Val(max_ts))}}

\* ORDER BY Reading.timestamp, Sensor.record_type.  Sensor.record_type is the
\* same in every selected row, so the clause fixes the order of the
\* timestamps only.  Between the two sensor rows of one timestamp the order
\* is the engine's: `tie` is the set of timestamps whose sensor-index-1 row
\* is delivered first.  SQLite reads Sensor through its primary-key index
\* (record_type, timestamp, sensor) and so delivers index 0 first: tie = {}.
RowKey(row, tie) ==
    2 * Col(row, 0) + (IF Col(row, 0) \in tie THEN 1 - Col(row, 10) ELSE Col(row, 10))

RECURSIVE OrderBy(_, _)
OrderBy(rows, tie) ==
    IF rows = {} THEN << >>
    ELSE LET first == CHOOSE x \in rows : \A y \in rows : RowKey(x, tie) <= RowKey(y, tie)
         IN  <<first>> \o OrderBy(rows \ {first}, tie)

\* LIMIT %d
Limit(rowSeq, limit) ==
    IF IsNone(limit) \/ Val(limit) >= Len(rowSeq) THEN rowSeq
    ELSE SubSeq(rowSeq, 1, Val(limit))

SensorFromRow(row) ==
    [pm1_0_cf_1  |-> Col(row, 11), pm1_0_atm  |-> Col(row, 12),
     pm2_5_cf_1  |-> Col(row, 13), pm2_5_atm  |-> Col(row, 14),
     pm10_0_cf_1 |-> Col(row, 15), pm10_0_atm |-> Col(row, 16),
     p_0_3_um    |-> Col(row, 17), p_0_5_um   |-> Col(row, 18),
     p_1_0_um    |-> Col(row, 19), p_2_5_um   |-> Col(row, 20),
     p_5_0_um    |-> Col(row, 21), p_10_0_um  |-> Col(row, 22),
     pm2_5_aqi   |-> Col(row, 23),
     p25aqic     |-> RGB(Col(row, 24), Col(row, 25), Col(row, 26))]

\* create_reading_from_row: raises UnexpectedSensorRecord on a B sensor row
create_reading_from_row(row) ==
    IF Col(row, 10) = Sensor_B
    THEN [raised |-> TRUE]
    ELSE [raised  |-> FALSE,
          reading |-> [time_of_reading        |-> Col(row, 0),
                       current_temp_f         |-> Col(row, 1),
                       current_humidity       |-> Col(row, 2),
                       current_dewpoint_f     |-> Col(row, 3),
                       pressure               |-> Col(row, 4),
                       current_temp_f_680     |-> Col(row, 5),
                       current_humidity_680   |-> Col(row, 6),
                       current_dewpoint_f_680 |-> Col(row, 7),
                       pressure_680           |-> Col(row, 8),
                       gas_680                |-> Col(row, 9),
                       sensor                 |-> SensorFromRow(row),
                       sensor_b               |-> None]]

\* add_to_reading_from_row: raises UnexpectedSensorRecord on an A sensor row
add_to_reading_from_row(reading, row) ==
    IF Col(row, 10) = Sensor_A
    THEN [raised |-> TRUE]
    ELSE [raised  |-> FALSE,
          reading |-> [reading EXCEPT !.sensor_b = Some(SensorFromRow(row))]]

\* The loop of fetch_readings over the ordered rows from row k on.
\* `reading` is the pending Reading (an Optional), `out` the Readings
\* yielded so far.  The result is what the consumer of the generator sees:
\* the Readings yielded, and whether the generator then raised.
RECURSIVE FetchLoop(_, _, _, _)
FetchLoop(rowSeq, k, reading, out) ==
    IF k > Len(rowSeq)
    THEN [out    |-> IF IsNone(reading) THEN out ELSE Append(out, Val(reading)),
          raised |-> FALSE]
    ELSE LET row == rowSeq[k] IN
         IF IsNone(reading)
         THEN LET c == create_reading_from_row(row)
              IN  IF c.raised THEN [out |-> out, raised |-> TRUE]
                  ELSE FetchLoop(rowSeq, k + 1, Some(c.reading), out)
         ELSE IF Col(row, 10) = 1
         THEN LET a == add_to_reading_from_row(Val(reading), row)
              IN  IF a.raised THEN [out |-> out, raised |-> TRUE]
                  ELSE FetchLoop(rowSeq, k + 1, None, Append(out, a.reading))
         ELSE LET c == create_reading_from_row(row)
              IN  IF c.raised THEN [out |-> Append(out, Val(reading)), raised |-> TRUE]
                  ELSE FetchLoop(rowSeq, k + 1, Some(c.reading), Append(out, Val(reading)))

\* the rows the cursor delivers to the loop of fetch_readings
CursorRows(d, record_type, since_ts, max_ts, limit, tie) ==
    Limit(OrderBy(SelectRows(d, record_type, since_ts, max_ts), tie), limit)

\* fetch_readings, consumed to its end
fetch_readings(d, record_type, since_ts, max_ts, limit, tie) ==
    FetchLoop(CursorRows(d, record_type, since_ts, max_ts, limit, tie), 1, None, << >>)

(***************************************************************************)
(* Service: averaging                                                      *)
(***************************************************************************)
sum_rgb(rgb1, rgb2) ==
    RGB(rgb1.red + rgb2.red, rgb1.green + rgb2.green, rgb1.blue + rgb2.blue)

sum_sensor(sensor1, sensor2) ==
    [pm1_0_cf_1  |-> FAdd(sensor1.pm1_0_cf_1, sensor2.pm1_0_cf_1),
     pm1_0_atm   |-> FAdd(sensor1.pm1_0_atm, sensor2.pm1_0_atm),
     pm2_5_cf_1  |-> FAdd(sensor1.pm2_5_cf_1, sensor2.pm2_5_cf_1),
     pm2_5_atm   |-> FAdd(sensor1.pm2_5_atm, sensor2.pm2_5_atm),
     pm10_0_cf_1 |-> FAdd(sensor1.pm10_0_cf_1, sensor2.pm10_0_cf_1),
     pm10_0_atm  |-> FAdd(sensor1.pm10_0_atm, sensor2.pm10_0_atm),
     p_0_3_um    |-> FAdd(sensor1.p_0_3_um, sensor2.p_0_3_um),
     p_0_5_um    |-> FAdd(sensor1.p_0_5_um, sensor2.p_0_5_um),
     p_1_0_um    |-> FAdd(sensor1.p_1_0_um, sensor2.p_1_0_um),
     p_2_5_um    |-> FAdd(sensor1.p_2_5_um, sensor2.p_2_5_um),
     p_5_0_um    |-> FAdd(sensor1.p_5_0_um, sensor2.p_5_0_um),
     p_10_0_um   |-> FAdd(sensor1.p_10_0_um, sensor2.p_10_0_um),
     pm2_5_aqi   |-> sensor1.pm2_5_aqi + sensor2.pm2_5_aqi,
     p25aqic     |-> sum_rgb(sensor1.p25aqic, sensor2.p25aqic)]

average_sensor(summed_sensor, count) ==
    [pm1_0_cf_1  |-> FDiv(summed_sensor.pm1_0_cf_1, count),
     pm1_0_atm   |-> FDiv(summed_sensor.pm1_0_atm, count),
     pm2_5_cf_1  |-> FDiv(summed_sensor.pm2_5_cf_1, count),
     pm2_5_atm   |-> FDiv(summed_sensor.pm2_5_atm, count),
     pm10_0_cf_1 |-> FDiv(summed_sensor.pm10_0_cf_1, count),
     pm10_0_atm  |-> FDiv(summed_sensor.pm10_0_atm, count),
     p_0_3_um    |-> FDiv(summed_sensor.p_0_3_um, count),
     p_0_5_um    |-> FDiv(summed_sensor.p_0_5_um, count),
     p_1_0_um    |-> FDiv(summed_sensor.p_1_0_um, count),
     p_2_5_um    |-> FDiv(summed_sensor.p_2_5_um, count),
     p_5_0_um    |-> FDiv(summed_sensor.p_5_0_um, count),
     p_10_0_um   |-> FDiv(summed_sensor.p_10_0_um, count),
     pm2_5_aqi   |-> IntHalfUp(summed_sensor.pm2_5_aqi, count),
     p25aqic     |-> RGB(IntHalfUp(summed_sensor.p25aqic.red, count),
                         IntHalfUp(summed_sensor.p25aqic.green, count),
                         IntHalfUp(summed_sensor.p25aqic.blue, count))]

\* the loop pass taking sensor_b from the Reading at hand when the running
\* sum has lost it
SumStep_sensor_b_restored(summed_reading, reading) ==
    LET both680 ==
            /\ ~IsNone(summed_reading.current_temp_f_680)
            /\ ~IsNone(reading.current_temp_f_680)
            /\ ~IsNone(summed_reading.current_humidity_680)
            /\ ~IsNone(reading.current_humidity_680)
            /\ ~IsNone(summed_reading.current_dewpoint_f_680)
            /\ ~IsNone(reading.current_dewpoint_f_680)
            /\ ~IsNone(summed_reading.pressure_680)
            /\ ~IsNone(reading.pressure_680)
            /\ ~IsNone(summed_reading.gas_680)
            /\ ~IsNone(reading.gas_680)
    IN  [time_of_reading    |-> reading.time_of_reading,
         current_temp_f     |-> summed_reading.current_temp_f + reading.current_temp_f,
         current_humidity   |-> summed_reading.current_humidity + reading.current_humidity,
         current_dewpoint_f |-> summed_reading.current_dewpoint_f + reading.current_dewpoint_f,
         pressure           |-> FAdd(summed_reading.pressure, reading.pressure),
         current_temp_f_680 |->
             IF both680 THEN Some(Val(summed_reading.current_temp_f_680)
                                  + Val(reading.current_temp_f_680))
             ELSE None,
         current_humidity_680 |->
             IF both680 THEN Some(Val(summed_reading.current_humidity_680)
                                  + Val(reading.current_humidity_680))
             ELSE None,
         current_dewpoint_f_680 |->
             IF both680 THEN Some(Val(summed_reading.current_dewpoint_f_680)
                                  + Val(reading.current_dewpoint_f_680))
             ELSE None,
         pressure_680 |->
             IF both680 THEN Some(FAdd(Val(summed_reading.pressure_680),
                                       Val(reading.pressure_680)))
             ELSE None,
         gas_680 |->
             IF both680 THEN Some(FAdd(Val(summed_reading.gas_680), Val(reading.gas_680)))
             ELSE None,
         sensor   |-> sum_sensor(summed_reading.sensor, reading.sensor),
         sensor_b |->
             IF IsNone(reading.sensor_b) THEN None
             ELSE IF IsNone(summed_reading.sensor_b) THEN reading.sensor_b
             ELSE Some(sum_sensor(Val(summed_reading.sensor_b), Val(reading.sensor_b)))]

\* One pass of the loop `for reading in readings[1:]` of compute_avg.
SumStep(summed_reading, reading) ==
    LET both680 ==
            /\ ~IsNone(summed_reading.current_temp_f_680)
            /\ ~IsNone(reading.current_temp_f_680)
            /\ ~IsNone(summed_reading.current_humidity_680)
            /\ ~IsNone(reading.current_humidity_680)
            /\ ~IsNone(summed_reading.current_dewpoint_f_680)
            /\ ~IsNone(reading.current_dewpoint_f_680)
            /\ ~IsNone(summed_reading.pressure_680)
            /\ ~IsNone(reading.pressure_680)
            /\ ~IsNone(summed_reading.gas_680)
            /\ ~IsNone(reading.gas_680)
    IN  [time_of_reading    |-> reading.time_of_reading,
         current_temp_f     |-> summed_reading.current_temp_f + reading.current_temp_f,
         current_humidity   |-> summed_reading.current_humidity + reading.current_humidity,
         current_dewpoint_f |-> summed_reading.current_dewpoint_f + reading.current_dewpoint_f,
         pressure           |-> FAdd(summed_reading.pressure, reading.pressure),
         current_temp_f_680 |->
             IF both680 THEN Some(Val(summed_reading.current_temp_f_680)
                                  + Val(reading.current_temp_f_680))
             ELSE None,
         current_humidity_680 |->
             IF both680 THEN Some(Val(summed_reading.current_humidity_680)
                                  + Val(reading.current_humidity_680))
             ELSE None,
         current_dewpoint_f_680 |->
             IF both680 THEN Some(Val(summed_reading.current_dewpoint_f_680)
                                  + Val(reading.current_dewpoint_f_680))
             ELSE None,
         pressure_680 |->
             IF both680 THEN Some(FAdd(Val(summed_reading.pressure_680),
                                       Val(reading.pressure_680)))
             ELSE None,
         gas_680 |->
             IF both680 THEN Some(FAdd(Val(summed_reading.gas_680), Val(reading.gas_680)))
             ELSE None,
         sensor   |-> sum_sensor(summed_reading.sensor, reading.sensor),
         sensor_b |->
             IF ~IsNone(summed_reading.sensor_b) /\ ~IsNone(reading.sensor_b)
             THEN Some(sum_sensor(Val(summed_reading.sensor_b), Val(reading.sensor_b)))
             ELSE None]

\* summed_reading after the loop has taken readings[k..]
RECURSIVE SumLoop(_, _, _)
SumLoop(rs, k, summed_reading) ==
    IF k > Len(rs) THEN summed_reading
    ELSE SumLoop(rs, k + 1, SumStep(summed_reading, rs[k]))

\* The Reading compute_avg builds from summed_reading and count.
Averaged(summed_reading, count) ==
    [time_of_reading        |-> summed_reading.time_of_reading,
     current_temp_f         |-> IntHalfUp(summed_reading.current_temp_f, count),
     current_humidity       |-> IntHalfUp(summed_reading.current_humidity, count),
     current_dewpoint_f     |-> IntHalfUp(summed_reading.current_dewpoint_f, count),
     pressure               |-> FDiv(summed_reading.pressure, count),
     current_temp_f_680     |->
         IF ~IsNone(summed_reading.current_temp_f_680)
         THEN Some(IntHalfUp(Val(summed_reading.current_temp_f_680), count)) ELSE None,
     current_humidity_680   |->
         IF ~IsNone(summed_reading.current_humidity_680)
         THEN Some(IntHalfUp(Val(summed_reading.current_humidity_680), count)) ELSE None,
     current_dewpoint_f_680 |->
         IF ~IsNone(summed_reading.current_dewpoint_f_680)
         THEN Some(IntHalfUp(Val(summed_reading.current_dewpoint_f_680), count)) ELSE None,
     pressure_680           |->
         IF ~IsNone(summed_reading.pressure_680)
         THEN Some(FDiv(Val(summed_reading.pressure_680), count)) ELSE None,
     gas_680                |->
         IF ~IsNone(summed_reading.gas_680)
         THEN Some(FDiv(Val(summed_reading.gas_680), count)) ELSE None,
     sensor                 |-> average_sensor(summed_reading.sensor, count),
     sensor_b               |->
         IF ~IsNone(summed_reading.sensor_b)
         THEN Some(average_sensor(Val(summed_reading.sensor_b), count)) ELSE None]

\* compute_avg stamping the result with the first Reading's time
compute_avg_first_time(rs) ==
    [Averaged(SumLoop(rs, 2, rs[1]), Len(rs)) EXCEPT !.time_of_reading = rs[1].time_of_reading]

\* compute_avg(readings), for a non-empty list
compute_avg(rs) == Averaged(SumLoop(rs, 2, rs[1]), Len(rs))

(***************************************************************************)
(* Service: the clock, validation and the pieces of the sampling loop      *)
(***************************************************************************)
Event_POLL == 1
Event_ARCHIVE == 2

\* float - float, float < float
FSub(x, y) == Frac(x[1] * y[2] - y[1] * x[2], x[2] * y[2])
FLess(x, y) == x[1] * y[2] < y[1] * x[2]

\* int(x) for a float x: truncation toward zero
IntOf(x) == IF x[1] >= 0 THEN x[1] \div x[2] ELSE -((-x[1]) \div x[2])

\* the whole seconds of a datetime (utctimetuple() drops the microseconds)
WholeSeconds(x) == x[1] \div x[2]

\* compute_next_event classifying by the boundaries just passed instead of
\* the ones ahead
compute_next_event_past_boundaries(clock, c) ==
    LET last_poll_event == IntOf(FDiv(clock, c.pollfreq_secs)) * c.pollfreq_secs
        last_arc_event == IntOf(FDiv(clock, c.arcint_secs)) * c.arcint_secs
        next_poll_event == last_poll_event + c.pollfreq_secs
    IN  [event         |-> IF last_poll_event = last_arc_event
                           THEN Event_ARCHIVE ELSE Event_POLL,
         secs_to_event |-> FAdd(FSub(F(next_poll_event), clock), F(c.pollfreq_offset))]

\* compute_next_event leaving the poll offset out of the sleep
compute_next_event_no_offset(clock, c) ==
    LET next_poll_event ==
            IntOf(FDiv(clock, c.pollfreq_secs)) * c.pollfreq_secs + c.pollfreq_secs
        next_arc_event ==
            IntOf(FDiv(clock, c.arcint_secs)) * c.arcint_secs + c.arcint_secs
    IN  [event         |-> IF next_poll_event = next_arc_event
                           THEN Event_ARCHIVE ELSE Event_POLL,
         secs_to_event |-> FSub(F(next_poll_event), clock)]

\* compute_next_event, reading the clock as `clock`; c is the Service's
\* configuration
compute_next_event(clock, c) ==
    LET next_poll_event ==
            IntOf(FDiv(clock, c.pollfreq_secs)) * c.pollfreq_secs + c.pollfreq_secs
        next_arc_event ==
            IntOf(FDiv(clock, c.arcint_secs)) * c.arcint_secs + c.arcint_secs
    IN  [event         |-> IF next_poll_event = next_arc_event
                           THEN Event_ARCHIVE ELSE Event_POLL,
         secs_to_event |-> FAdd(FSub(F(next_poll_event), clock), F(c.pollfreq_offset))]

\* trim_two_minute_readings, reading the clock as `clock`: the list after
\* the pops
two_minutes_ago(clock) == FSub(clock, F(120))

RECURSIVE trim_two_minute_readings(_, _)
trim_two_minute_readings(buf, clock) ==
    IF Len(buf) > 0 /\ FLess(F(buf[1].time_of_reading), two_minutes_ago(clock))
    THEN trim_two_minute_readings(Tail(buf), clock)
    ELSE buf

\* The Python types of the values parse_response puts into a Reading.  The
\* JSON decides them: `wrong` names the one field that arrived with another
\* JSON type than the device documents ("" for none): pressure as a JSON
\* integer (1013), current_temp_f as a JSON real (70.5), pm2.5_aqi_b as a
\* JSON real.
SensorTypes(aqi) ==
    [pm1_0_cf_1  |-> "float", pm1_0_atm  |-> "float", pm2_5_cf_1 |-> "float",
     pm2_5_atm   |-> "float", pm10_0_cf_1 |-> "float", pm10_0_atm |-> "float",
     p_0_3_um    |-> "float", p_0_5_um   |-> "float", p_1_0_um   |-> "float",
     p_2_5_um    |-> "float", p_5_0_um   |-> "float", p_10_0_um  |-> "float",
     pm2_5_aqi   |-> aqi,     p25aqic    |-> "RGB"]

TypesOf(wrong) ==
    [time_of_reading        |-> "datetime",
     current_temp_f         |-> IF wrong = "current_temp_f" THEN "float" ELSE "int",
     current_humidity       |-> "int",
     current_dewpoint_f     |-> "int",
     pressure               |-> IF wrong = "pressure" THEN "int" ELSE "float",
     current_temp_f_680     |-> "int",
     current_humidity_680   |-> "int",
     current_dewpoint_f_680 |-> "int",
     pressure_680           |-> "float",
     gas_680                |-> "float",
     sensor                 |-> SensorTypes("int"),
     sensor_b               |-> SensorTypes(IF wrong = "pm2.5_aqi_b" THEN "float" ELSE "int")]

\* is_sensor_sane on the types of a SensorData's values
is_sensor_sane(t) ==
    /\ t.pm1_0_cf_1 = "float"
    /\ t.pm1_0_atm = "float"
    /\ t.pm2_5_cf_1 = "float"
    /\ t.pm2_5_atm = "float"
    /\ t.pm10_0_cf_1 = "float"
    /\ t.pm10_0_atm = "float"
    /\ t.p_0_3_um = "float"
    /\ t.p_0_5_um = "float"
    /\ t.p_1_0_um = "float"
    /\ t.p_2_5_um = "float"
    /\ t.p_5_0_um = "float"
    /\ t.p_10_0_um = "float"
    /\ t.pm2_5_aqi = "int"
    /\ t.p25aqic = "RGB"

\* is_sane with the test of pressure left out
is_sane_pressure_unchecked(reading, t) ==
    /\ t.time_of_reading = "datetime"
    /\ t.current_temp_f = "int"
    /\ t.current_humidity = "int"
    /\ t.current_dewpoint_f = "int"
    /\ is_sensor_sane(t.sensor)
    /\ ~(~IsNone(reading.sensor_b) /\ ~is_sensor_sane(t.sensor_b))

\* is_sane(reading): `reading` is the Reading, t the types of its values
is_sane(reading, t) ==
    /\ t.time_of_reading = "datetime"
    /\ t.current_temp_f = "int"
    /\ t.current_humidity = "int"
    /\ t.current_dewpoint_f = "int"
    /\ t.pressure = "float"
    /\ ~(~IsNone(reading.current_temp_f_680) /\ t.current_temp_f_680 # "int")
    /\ ~(~IsNone(reading.current_humidity_680) /\ t.current_humidity_680 # "int")
    /\ ~(~IsNone(reading.current_dewpoint_f_680) /\ t.current_dewpoint_f_680 # "int")
    /\ ~(~IsNone(reading.pressure_680) /\ t.pressure_680 # "float")
    /\ ~(~IsNone(reading.gas_680) /\ t.gas_680 # "float")
    /\ is_sensor_sane(t.sensor)
    /\ ~(~IsNone(reading.sensor_b) /\ ~is_sensor_sane(t.sensor_b))

\* archive_ts without the five seconds of grace
archive_ts_no_grace(clock, arcint_secs) ==
    IntOf(FDiv(F(WholeSeconds(clock)), arcint_secs)) * arcint_secs

\* the timestamp do_loop puts on an archive record when utc_now() is `clock`
archive_ts(clock, arcint_secs) ==
    LET reading_plus_5s_ts == WholeSeconds(FAdd(clock, F(5)))
    IN  IntOf(FDiv(F(reading_plus_5s_ts), arcint_secs)) * arcint_secs

(***************************************************************************)
(* State machines                                                          *)
(***************************************************************************)
db == [Reading |-> tblReading, Sensor |-> tblSensor]

\* the tiers that hold one record, replaced on every save
ReplaceTiers == {CURRENT, TWO_MINUTE}

\* Database.create: both tables empty
InitStore ==
    /\ tblReading = {}
    /\ tblSensor = {}
    /\ lastSaved = [t \in ReplaceTiers |-> None]
    /\ op = [name |-> "create"]

\* no list has been averaged yet
InitAvg ==
    /\ readings = << >>
    /\ avg_reading = None

\* the locals of do_loop before its while loop
InitLoop ==
    /\ first_time = TRUE
    /\ session = None
    /\ archive_readings = << >>
    /\ two_minute_readings = << >>
    /\ it = [name |-> "start"]

\* the configuration start() falls back to, and a clock nobody has read
DefaultConfig == [pollfreq_secs |-> 30, pollfreq_offset |-> 0, arcint_secs |-> 300]

InitClock ==
    /\ now = F(0)
    /\ cfg = DefaultConfig
    /\ next_event = None

\* collect_data has not been called, no request has arrived, no transaction
\* is open
InitRest ==
    /\ collected = None
    /\ served = None
    /\ txn = None
    /\ seen = None
    /\ heap = << >>
    /\ held = << >>
    /\ averaged = None

Init == InitStore /\ InitAvg /\ InitLoop /\ InitClock /\ InitRest

\* Database.save_reading(record_type, r), reached through
\* save_current_reading, save_two_minute_reading and save_archive_reading
SaveReading(record_type, r) ==
    LET res == save_reading(db, record_type, r)
    IN  /\ tblReading' = res.Reading
        /\ tblSensor' = res.Sensor
        /\ lastSaved' = IF res.raised \/ record_type \notin ReplaceTiers THEN lastSaved
                        ELSE [lastSaved EXCEPT ![record_type] = Some(r)]
        /\ op' = [name |-> "save", record_type |-> record_type, r |-> r,
                  raised |-> res.raised,
                  fresh |-> (tblReading = {} /\ tblSensor = {})]
        /\ UNCHANGED <<avgVars, loopVars, clockVars, restVars>>

\* Database.fetch_readings(record_type, since_ts, max_ts, limit), consumed
\* to its end, the engine delivering tied rows in the order `tie`
FetchReadings(record_type, since_ts, max_ts, limit, tie) ==
    LET res == fetch_readings(db, record_type, since_ts, max_ts, limit, tie)
    IN  /\ op' = [name |-> "fetch", record_type |-> record_type,
                  since_ts |-> since_ts, max_ts |-> max_ts, limit |-> limit,
                  tie |-> tie, out |-> res.out, raised |-> res.raised]
        /\ UNCHANGED <<tblReading, tblSensor, lastSaved, avgVars, loopVars, clockVars, restVars>>

\* fetch_current_readings() and fetch_two_minute_readings()
FetchLatest(record_type, tie) == FetchReadings(record_type, 0, None, None, tie)

\* fetch_archive_readings(since_ts, max_ts, limit)
FetchArchive(since_ts, max_ts, limit, tie) ==
    FetchReadings(ARCHIVE, since_ts, max_ts, limit, tie)

SinceValues == 0..MaxTs
MaxTsValues == {None} \cup {Some(t) : t \in Timestamps}
LimitValues == {None} \cup {Some(l) : l \in 1..MaxLimit}

Save == \E record_type \in RecordTypes, r \in StoreReadings : SaveReading(record_type, r)

\* SQLite reads Sensor through its primary-key index: the sensor rows of one
\* timestamp arrive index 0 first.
EngineTie == {}

\* The store behind SQLite.
NextStore ==
    \/ Save
    \/ \E record_type \in ReplaceTiers : FetchLatest(record_type, EngineTie)
    \/ \E since_ts \in SinceValues, max_ts \in MaxTsValues, limit \in LimitValues :
            FetchArchive(since_ts, max_ts, limit, EngineTie)

SpecStore == Init /\ [][NextStore]_vars

(***************************************************************************)
(* save_reading statement by statement, with a reader on another           *)
(* connection                                                              *)
(*                                                                         *)
(* `with sqlite3.connect(...) as conn` runs the DELETEs and INSERTs of one *)
(* save_reading call in one transaction: the statements work on the        *)
(* connection's own view of the tables, the block's end commits it and an  *)
(* exception leaving the block rolls it back.                              *)
(***************************************************************************)
\* the statement at which the engine itself fails (sqlite3.OperationalError:
\* disk full, I/O error), "none" when it does not
Faults == {"none", "reading", "sensor_a", "sensor_b"}

\* the first statement of the with block for record_type
first_statement(record_type) ==
    IF DeletesTier(record_type) THEN "delete" ELSE "reading"

\* execute with the DELETE on table Sensor left out
execute_keeps_sensor_rows(t) ==
    LET stamp == t.r.time_of_reading
        sql   == insert_reading_sql(t.record_type, stamp, t.r)
    IN  CASE t.pc = "delete" ->
                [t EXCEPT !.Reading = DeleteTier(t.Reading, t.record_type),
                          !.pc = "reading"]
          [] t.pc = "reading" ->
                IF IsNone(sql) \/ t.fault = "reading" THEN [t EXCEPT !.pc = "raised"]
                ELSE IF ReadingKeyTaken(t.Reading, Val(sql)) THEN [t EXCEPT !.pc = "raised"]
                ELSE [t EXCEPT !.Reading = t.Reading \cup {Val(sql)}, !.pc = "sensor_a"]
          [] t.pc = "sensor_a" ->
                LET a == save_sensor(t.Sensor, t.record_type, stamp, 0, t.r.sensor)
                IN  IF a.raised \/ t.fault = "sensor_a" THEN [t EXCEPT !.pc = "raised"]
                    ELSE [t EXCEPT !.Sensor = a.rows,
                                   !.pc = IF IsNone(t.r.sensor_b) THEN "commit" ELSE "sensor_b"]
          [] t.pc = "sensor_b" ->
                LET b == save_sensor(t.Sensor, t.record_type, stamp, 1, Val(t.r.sensor_b))
                IN  IF b.raised \/ t.fault = "sensor_b" THEN [t EXCEPT !.pc = "raised"]
                    ELSE [t EXCEPT !.Sensor = b.rows, !.pc = "commit"]

\* the transaction after its next statement: pc names the statement to run
\* next, "commit" when the block has reached its end and "raised" when the
\* statement raised
execute(t) ==
    LET stamp == t.r.time_of_reading
        sql   == insert_reading_sql(t.record_type, stamp, t.r)
    IN  CASE t.pc = "delete" ->
                [t EXCEPT !.Reading = DeleteTier(t.Reading, t.record_type),
                          !.Sensor = DeleteTier(t.Sensor, t.record_type),
                          !.pc = "reading"]
          [] t.pc = "reading" ->
                IF IsNone(sql) \/ t.fault = "reading" THEN [t EXCEPT !.pc = "raised"]
                ELSE IF ReadingKeyTaken(t.Reading, Val(sql)) THEN [t EXCEPT !.pc = "raised"]
                ELSE [t EXCEPT !.Reading = t.Reading \cup {Val(sql)}, !.pc = "sensor_a"]
          [] t.pc = "sensor_a" ->
                LET a == save_sensor(t.Sensor, t.record_type, stamp, 0, t.r.sensor)
                IN  IF a.raised \/ t.fault = "sensor_a" THEN [t EXCEPT !.pc = "raised"]
                    ELSE [t EXCEPT !.Sensor = a.rows,
                                   !.pc = IF IsNone(t.r.sensor_b) THEN "commit" ELSE "sensor_b"]
          [] t.pc = "sensor_b" ->
                LET b == save_sensor(t.Sensor, t.record_type, stamp, 1, Val(t.r.sensor_b))
                IN  IF b.raised \/ t.fault = "sensor_b" THEN [t EXCEPT !.pc = "raised"]
                    ELSE [t EXCEPT !.Sensor = b.rows, !.pc = "commit"]

\* a connection whose statements are committed one by one
rollback_keeps_statements(t) == [Reading |-> t.Reading, Sensor |-> t.Sensor]

\* the tables after the with block is left by an exception: as they were
\* when the transaction began
rollback(t) == t.before

\* a reader that sees the statements of the open transaction
reader_view_uncommitted(d, t) ==
    IF IsNone(t) THEN d ELSE [Reading |-> Val(t).Reading, Sensor |-> Val(t).Sensor]

\* the tables another connection reads while transaction t is open: the
\* committed ones
reader_view(d, t) == d

\* save_reading(record_type, r) enters its with block
Begin(record_type, r, fault) ==
    /\ IsNone(txn)
    /\ txn' = Some([record_type |-> record_type, r |-> r, fault |-> fault,
                    pc |-> first_statement(record_type),
                    Reading |-> tblReading, Sensor |-> tblSensor, before |-> db])
    /\ seen' = None
    /\ UNCHANGED <<storeVars, avgVars, loopVars, clockVars, collected, served,
                   heap, held, averaged>>

\* the open transaction runs its next statement; at the end of the block it
\* commits, on an exception it rolls back
Execute ==
    /\ ~IsNone(txn)
    /\ Val(txn).pc \notin {"commit", "raised"}
    /\ \E t \in {execute(Val(txn))} :
          IF t.pc = "commit"
          THEN /\ tblReading' = t.Reading
               /\ tblSensor' = t.Sensor
               /\ lastSaved' = IF t.record_type \in ReplaceTiers
                                THEN [lastSaved EXCEPT ![t.record_type] = Some(t.r)]
                                ELSE lastSaved
               /\ op' = [name |-> "save", record_type |-> t.record_type, r |-> t.r,
                         raised |-> FALSE, fresh |-> (t.before.Reading = {} /\ t.before.Sensor = {})]
               /\ txn' = None
          ELSE IF t.pc = "raised"
          THEN /\ tblReading' = rollback(t).Reading
               /\ tblSensor' = rollback(t).Sensor
               /\ op' = [name |-> "save", record_type |-> t.record_type, r |-> t.r,
                         raised |-> TRUE, fresh |-> (t.before.Reading = {} /\ t.before.Sensor = {}),
                         before |-> t.before, at |-> Val(txn).pc, fault |-> t.fault]
               /\ txn' = None
               /\ UNCHANGED lastSaved
          ELSE /\ txn' = Some(t)
               /\ UNCHANGED storeVars
    /\ UNCHANGED <<avgVars, loopVars, clockVars, collected, served, seen,
                   heap, held, averaged>>

\* fetch_readings(record_type, 0) on another connection, consumed to its end
Read(record_type) ==
    /\ seen' = Some([record_type |-> record_type, during |-> txn,
                     latest |-> IF record_type \in ReplaceTiers THEN lastSaved[record_type] ELSE None,
                     res |-> fetch_readings(reader_view(db, txn), record_type, 0, None, None, EngineTie)])
    /\ UNCHANGED <<storeVars, avgVars, loopVars, clockVars, collected, served, txn,
                   heap, held, averaged>>

\* the save_reading calls made while a reader is about: tier, Reading and
\* the statement at which the engine fails
TxnSaves ==
    {<<CURRENT, Sample(2, 1), "none">>, <<CURRENT, Sample(1, 2), "none">>,
     <<CURRENT, Sample(2, 2), "sensor_b">>, <<CURRENT, Sample(4, 1), "none">>,
     <<ARCHIVE, Sample(2, 1), "none">>, <<ARCHIVE, Sample(1, 1), "none">>,
     <<ARCHIVE, Sample(2, 2), "sensor_a">>,
     <<TWO_MINUTE, Sample(2, 1), "none">>, <<TWO_MINUTE, Sample(1, 1), "reading">>}

NextTxn ==
    \/ \E save \in TxnSaves : Begin(save[1], save[2], save[3])
    \/ Execute
    \/ \E record_type \in RecordTypes : Read(record_type)

SpecTxn == Init /\ [][NextTxn]_vars

\* Two of the orders the ORDER BY clause permits: every pair of tied sensor
\* rows in index order, or every pair reversed.
TieOrders == {EngineTie, Timestamps}

\* The store behind an engine that honours the ORDER BY clause and no more.
NextOrder ==
    \/ Save
    \/ \E record_type \in ReplaceTiers, tie \in TieOrders :
            FetchLatest(record_type, tie)
    \/ \E since_ts \in SinceValues, max_ts \in MaxTsValues, limit \in LimitValues,
          tie \in TieOrders :
            FetchArchive(since_ts, max_ts, limit, tie)

SpecOrder == Init /\ [][NextOrder]_vars

\* the caller puts one more Reading into the list
AppendReading(r) ==
    /\ Len(readings) < MaxWindow
    /\ readings' = Append(readings, r)
    /\ avg_reading' = None
    /\ UNCHANGED <<storeVars, loopVars, clockVars, restVars>>

\* avg_reading = Service.compute_avg(readings)
ComputeAvg ==
    /\ Len(readings) >= 1
    /\ avg_reading' = Some(compute_avg(readings))
    /\ UNCHANGED <<readings, storeVars, loopVars, clockVars, restVars>>

NextAvg ==
    \/ \E r \in Readings : AppendReading(r)
    \/ ComputeAvg

SpecAvg == Init /\ [][NextAvg]_vars

(***************************************************************************)
(* compute_avg on objects                                                  *)
(*                                                                         *)
(* A list holds references to Reading objects, and do_loop appends one     *)
(* object to both of its lists.  compute_avg assigns to attributes of      *)
(* summed_reading only; sum_sensor, sum_rgb and average_sensor build new   *)
(* SensorData and RGB objects and assign to none, so a Reading object is   *)
(* kept here as one value, its SensorData and RGB included.                *)
(***************************************************************************)
\* summed_reading bound to the object itself instead of a copy
deepcopy_same_object(h, ref) == [heap |-> h, ref |-> ref]

\* copy.deepcopy(readings[0]): a new object equal to the one referred to
deepcopy(h, ref) == [heap |-> Append(h, h[ref]), ref |-> Len(h) + 1]

\* the heap after `for reading in readings[1:]` has taken refs[k..], every
\* turn assigning the sums to the attributes of the object summed_reading
RECURSIVE sum_into(_, _, _, _)
sum_into(h, summed_reading, refs, k) ==
    IF k > Len(refs) THEN h
    ELSE sum_into([h EXCEPT ![summed_reading] = SumStep(h[summed_reading], h[refs[k]])],
                  summed_reading, refs, k + 1)

\* compute_avg(readings) on heap h, readings being the references refs: the
\* Reading returned, and the heap once summed_reading is out of scope (the
\* objects the caller had are the first Len(h) ones)
compute_avg_on(h, refs) ==
    LET copied == deepcopy(h, refs[1])
        summed == sum_into(copied.heap, copied.ref, refs, 2)
    IN  [result |-> Averaged(summed[copied.ref], Len(refs)),
         heap   |-> SubSeq(summed, 1, Len(h)),
         refs   |-> refs]

\* do_loop appends the Reading object it has just created to its list
HoldReading(r) ==
    /\ Len(held) < MaxWindow
    /\ heap' = Append(heap, r)
    /\ held' = Append(held, Len(heap) + 1)
    /\ UNCHANGED <<storeVars, avgVars, loopVars, clockVars, collected, served, txn, seen,
                   averaged>>

\* Service.compute_avg(held)
ComputeAvgHeld ==
    /\ Len(held) >= 1
    /\ \E res \in {compute_avg_on(heap, held)} :
          /\ heap' = res.heap
          /\ held' = res.refs
          /\ averaged' = Some([heap_before |-> heap, held_before |-> held,
                               heap_after |-> res.heap, held_after |-> res.refs,
                               result |-> res.result])
    /\ UNCHANGED <<storeVars, avgVars, loopVars, clockVars, collected, served, txn, seen>>

NextHeap ==
    \/ \E r \in Readings : HoldReading(r)
    \/ ComputeAvgHeld

SpecHeap == Init /\ [][NextHeap]_vars

(***************************************************************************)
(* The sampling loop                                                       *)
(***************************************************************************)
\* What the device (or the network) does to one collect_data call: the
\* call raises, or it returns a Reading of the given kind, stamped by the
\* device's clock (`skew` seconds off the host's) and typed as `wrong` says.
DeviceCase(raised, kind, skew, wrong) ==
    [raised |-> raised, kind |-> kind, skew |-> skew, wrong |-> wrong]

DeviceCases ==
    {DeviceCase(TRUE, 1, 0, ""),            \* parse error
     DeviceCase(FALSE, 1, 0, ""),           \* single sensor, no suite
     DeviceCase(FALSE, 1, -90, ""),         \* the same, device clock 90 s behind
     DeviceCase(FALSE, 4, 0, ""),           \* dual sensor, gas_680 alone
     DeviceCase(FALSE, 5, 0, ""),           \* current_temp_f_680 alone
     DeviceCase(FALSE, 7, 0, ""),           \* dual sensor, B far above A
     DeviceCase(FALSE, 1, 0, "pressure")}   \* pressure sent as a JSON integer

\* How one attempt of collect_data (session.get and raise_for_status) ends:
\* a response, or the exception raised.  requests derives ConnectTimeout
\* from ConnectionError (and from Timeout); ReadTimeout and HTTPError are
\* not ConnectionErrors.
AttemptOutcomes == {"ok", "ConnectionError", "ConnectTimeout", "ReadTimeout", "HTTPError"}

\* except requests.exceptions.ConnectionError
IsConnectionError(outcome) == outcome \in {"ConnectionError", "ConnectTimeout"}

\* fetch_attempts catching every exception, not only ConnectionError
RECURSIVE fetch_attempts_any_error(_, _)
fetch_attempts_any_error(net, i) ==
    IF net[i + 1] = "ok"
    THEN [attempts |-> i + 1, error |-> None, slept |-> 5 * i]
    ELSE IF i < 2 THEN fetch_attempts_any_error(net, i + 1)
    ELSE [attempts |-> i + 1, error |-> Some(net[i + 1]), slept |-> 5 * i]

\* `for i in range(3)` of collect_data from attempt i on; net[i + 1] is how
\* attempt i ends.  The attempts made, the exception that leaves the loop
\* (None after a break) and the seconds slept between attempts.
RECURSIVE fetch_attempts(_, _)
fetch_attempts(net, i) ==
    IF net[i + 1] = "ok"
    THEN [attempts |-> i + 1, error |-> None, slept |-> 5 * i]
    ELSE IF IsConnectionError(net[i + 1]) /\ i < 2
    THEN fetch_attempts(net, i + 1)
    ELSE [attempts |-> i + 1, error |-> Some(net[i + 1]), slept |-> 5 * i]

\* the device answers every attempt
NetUp == <<"ok", "ok", "ok">>

\* what the network does to the attempts of one pass of the loop
NetCases ==
    {NetUp,
     <<"ConnectionError", "ok", "ok">>,
     <<"ConnectionError", "ConnectTimeout", "ConnectionError">>,
     <<"ReadTimeout", "ok", "ok">>,
     <<"HTTPError", "ok", "ok">>}

\* the Reading collect_data returns when the fetch starts at `clock`
collect_data(answer, clock) == Sample(answer.kind, WholeSeconds(clock) + answer.skew)

\* save_reading from the loop.  `locked` holds the tiers whose save finds
\* the store locked by another connection for the whole timeout=15:
\* sqlite3 raises OperationalError and nothing is written.
try_save_reading(d, record_type, r, locked) ==
    IF record_type \in locked
    THEN [Reading |-> d.Reading, Sensor |-> d.Sensor, raised |-> TRUE]
    ELSE save_reading(d, record_type, r)

\* a save that was not called
NotSaved(d) == [Reading |-> d.Reading, Sensor |-> d.Sensor, raised |-> FALSE]

\* keeps_reading with the append moved out of the try block: a Reading is
\* appended although collect_data raised
keeps_reading_despite_raise(answer, reading) == is_sane(reading, TypesOf(answer.wrong))

\* whether the pass appends and saves a Reading: collect_data returned one
\* and is_sane accepted it
keeps_reading(answer, reading) ==
    ~answer.raised /\ is_sane(reading, TypesOf(answer.wrong))

\* The try block of do_loop: collect_data at clock `wake`, is_sane, the two
\* appends and save_current_reading.  `trimmed` is two_minute_readings after
\* the trim.
fetch_step(d, archive0, trimmed, answer, wake, locked) ==
    LET reading == collect_data(answer, wake)
        kept    == keeps_reading(answer, reading)
        cur     == IF kept THEN try_save_reading(d, CURRENT, reading, locked)
                   ELSE NotSaved(d)
    IN  [Reading             |-> cur.Reading,
         Sensor              |-> cur.Sensor,
         archive_readings    |-> IF kept THEN Append(archive0, reading) ELSE archive0,
         two_minute_readings |-> IF kept THEN Append(trimmed, reading) ELSE trimmed,
         fetched             |-> IF answer.raised THEN None ELSE Some(reading),
         kept                |-> kept,
         current             |-> IF kept THEN Some([r |-> reading, raised |-> cur.raised])
                                 ELSE None]

\* "Write two minute avg reading": avg_reading is the local of that name,
\* assigned only when the list is not empty
two_minute_step(d, two1, locked) ==
    IF Len(two1) = 0
    THEN [Reading |-> d.Reading, Sensor |-> d.Sensor, avg_reading |-> None,
          two_minute |-> None]
    ELSE LET avg == [compute_avg(two1) EXCEPT
                        !.time_of_reading = two1[Len(two1)].time_of_reading]
             tm  == try_save_reading(d, TWO_MINUTE, avg, locked)
         IN  [Reading |-> tm.Reading, Sensor |-> tm.Sensor, avg_reading |-> Some(avg),
              two_minute |-> Some([r |-> avg, raised |-> tm.raised])]

\* archive_step with the test for an empty list lost: the average the
\* two-minute step left in avg_reading is stamped and saved
archive_step_stale_avg(d, archive1, avg_left, c, event, done, locked) ==
    IF event # Event_ARCHIVE \/ (Len(archive1) = 0 /\ IsNone(avg_left))
    THEN [Reading |-> d.Reading, Sensor |-> d.Sensor, archive_readings |-> archive1,
          archive |-> None]
    ELSE LET avg == [(IF Len(archive1) = 0 THEN Val(avg_left) ELSE compute_avg(archive1))
                        EXCEPT !.time_of_reading = archive_ts(done, c.arcint_secs)]
             ar  == try_save_reading(d, ARCHIVE, avg, locked)
         IN  [Reading |-> ar.Reading, Sensor |-> ar.Sensor,
              archive_readings |-> IF ar.raised THEN archive1 ELSE << >>,
              archive |-> Some([r |-> avg, raised |-> ar.raised])]

\* archive_step clearing archive_readings after the save whether or not it
\* raised
archive_step_clears_always(d, archive1, avg_left, c, event, done, locked) ==
    IF event # Event_ARCHIVE \/ Len(archive1) = 0
    THEN [Reading |-> d.Reading, Sensor |-> d.Sensor, archive_readings |-> archive1,
          archive |-> None]
    ELSE LET avg == [compute_avg(archive1) EXCEPT
                        !.time_of_reading = archive_ts(done, c.arcint_secs)]
             ar  == try_save_reading(d, ARCHIVE, avg, locked)
         IN  [Reading |-> ar.Reading, Sensor |-> ar.Sensor,
              archive_readings |-> << >>,
              archive |-> Some([r |-> avg, raised |-> ar.raised])]

\* "if event == event.ARCHIVE": the archive record is averaged, stamped at
\* clock `done` and saved; archive_readings.clear() follows the save inside
\* the try block.  avg_left is what the two-minute step left in the local
\* avg_reading.
archive_step(d, archive1, avg_left, c, event, done, locked) ==
    IF event # Event_ARCHIVE \/ Len(archive1) = 0
    THEN [Reading |-> d.Reading, Sensor |-> d.Sensor, archive_readings |-> archive1,
          archive |-> None]
    ELSE LET avg == [compute_avg(archive1) EXCEPT
                        !.time_of_reading = archive_ts(done, c.arcint_secs)]
             ar  == try_save_reading(d, ARCHIVE, avg, locked)
         IN  [Reading |-> ar.Reading, Sensor |-> ar.Sensor,
              archive_readings |-> IF ar.raised THEN archive1 ELSE << >>,
              archive |-> Some([r |-> avg, raised |-> ar.raised])]

\* session_step leaving the session open after the try block raised
session_step_never_reset(sess, made, raised) ==
    LET created == IsNone(sess)
        used    == IF created THEN made + 1 ELSE Val(sess)
    IN  [created |-> created,
         used    |-> used,
         closed  |-> FALSE,
         session |-> Some(used),
         made    |-> IF created THEN made + 1 ELSE made]

\* The session of one pass of do_loop.  `sess` is the local variable
\* `session` at the top of the try block, `made` the number of requests.Session objects
\* built so far (they are told apart by that number), `raised` whether the
\* try block ended in its except branch.  With no session at hand one is
\* built before the fetch; the except branch closes the session and sets the
\* variable to None.
session_step(sess, made, raised) ==
    LET created == IsNone(sess)
        used    == IF created THEN made + 1 ELSE Val(sess)
    IN  [created |-> created,
         used    |-> used,
         closed  |-> raised,
         session |-> IF raised THEN None ELSE Some(used),
         made    |-> IF created THEN made + 1 ELSE made]

\* One pass of the while loop of do_loop after the sleep, put together from
\* its steps: `trimmed` is the 2-minute list after the trim, s what became
\* of the session, f what the fetch step left, t the two-minute step and a
\* the archive step.
LoopPass(trimmed, s, f, t, a) ==
    [Reading             |-> a.Reading,
     Sensor              |-> a.Sensor,
     archive_readings    |-> a.archive_readings,
     two_minute_readings |-> f.two_minute_readings,
     session             |-> s.session,
     session_created     |-> s.created,
     session_used        |-> s.used,
     session_closed      |-> s.closed,
     sessions_made       |-> s.made,
     trimmed             |-> trimmed,
     fetched             |-> f.fetched,
     kept                |-> f.kept,
     archive_at_event    |-> f.archive_readings,
     current             |-> f.current,
     two_minute          |-> t.two_minute,
     archive             |-> a.archive]

MaxClock == 200     \* no pass of the loop starts at or after this clock value

\* One turn of `while True` in do_loop: the event (POLL without a sleep the
\* first time, else compute_next_event and the sleep, which may last
\* `oversleep` longer than asked), then the pass: the trim at clock `wake`,
\* the fetch started at `wake` and over at `done`, then the two-minute and
\* the archive step.  sleep() raises ValueError
\* on a negative length; nothing in do_loop catches it and the loop is over.
\* `net` is how the attempts of collect_data end, `answer` what the device
\* sends once an attempt gets through; `got` is the answer as the loop meets
\* it, raised when collect_data raised for either reason.
DoLoop(oversleep, elapsed, answer, locked, net) ==
    /\ it.name # "crashed"
    /\ FLess(now, F(MaxClock))
    /\ LET ne    == compute_next_event(now, cfg)
           event == IF first_time THEN Event_POLL ELSE ne.event
           slept == IF first_time THEN F(0) ELSE FAdd(ne.secs_to_event, oversleep)
           wake  == FAdd(now, slept)
           tries == fetch_attempts(net, 0)
           got   == [answer EXCEPT !.raised = answer.raised \/ ~IsNone(tries.error)]
           heard == FAdd(wake, F(tries.slept))
           done  == FAdd(heard, elapsed)
       IN  IF ~first_time /\ FLess(ne.secs_to_event, F(0))
           THEN /\ it' = [name |-> "crashed", top |-> now, secs_to_event |-> ne.secs_to_event]
                /\ next_event' = Some([now |-> now, event |-> ne.event,
                                       secs_to_event |-> ne.secs_to_event])
                /\ UNCHANGED <<storeVars, avgVars, first_time, session,
                               archive_readings, two_minute_readings, now, cfg, restVars>>
           ELSE \E trimmed \in {trim_two_minute_readings(two_minute_readings, wake)} :
                \E f \in {fetch_step(db, archive_readings, trimmed, got, heard, locked)} :
                \E t \in {two_minute_step([Reading |-> f.Reading, Sensor |-> f.Sensor],
                                          f.two_minute_readings, locked)} :
                \E a \in {archive_step([Reading |-> t.Reading, Sensor |-> t.Sensor],
                                       f.archive_readings, t.avg_reading, cfg, event,
                                       done, locked)} :
                \E s \in {session_step(session,
                                        IF it.name = "pass" THEN it.sessions_made ELSE 0,
                                        got.raised)} :
                \E res \in {LoopPass(trimmed, s, f, t, a)} :
                /\ first_time' = FALSE
                /\ next_event' = IF first_time THEN next_event
                                 ELSE Some([now |-> now, event |-> ne.event,
                                            secs_to_event |-> ne.secs_to_event])
                /\ now' = done
                /\ tblReading' = res.Reading
                /\ tblSensor' = res.Sensor
                /\ archive_readings' = res.archive_readings
                /\ two_minute_readings' = res.two_minute_readings
                /\ session' = res.session
                /\ it' = [name        |-> "pass",
                          first       |-> first_time,
                          event       |-> event,
                          top         |-> now,
                          slept       |-> slept,
                          wake        |-> wake,
                          done        |-> done,
                          trimmed     |-> res.trimmed,
                          answer      |-> got,
                          net         |-> net,
                          attempts    |-> tries.attempts,
                          session_created |-> res.session_created,
                          session_used    |-> res.session_used,
                          session_closed  |-> res.session_closed,
                          sessions_made   |-> res.sessions_made,
                          fetched     |-> res.fetched,
                          kept        |-> res.kept,
                          archive_at_event |-> res.archive_at_event,
                          current     |-> res.current,
                          two_minute  |-> res.two_minute,
                          archive     |-> res.archive]
                /\ UNCHANGED <<lastSaved, op, avgVars, cfg, restVars>>

\* the configurations the loop is run with: the archive interval twice the
\* poll period; the two equal; and a poll offset that wakes the loop before
\* the boundary
LoopConfigs ==
    {[pollfreq_secs |-> 60, pollfreq_offset |-> 0, arcint_secs |-> 120],
     [pollfreq_secs |-> 60, pollfreq_offset |-> 0, arcint_secs |-> 60],
     [pollfreq_secs |-> 60, pollfreq_offset |-> -3, arcint_secs |-> 60]}

\* how much longer than asked a sleep lasts; how long the fetch takes
Oversleeps == {F(0), <<1, 2>>}
FetchTimes == {<<1, 2>>}

\* at most one of a pass's saves finds the store locked
Locks == {{}, {CURRENT}, {TWO_MINUTE}, {ARCHIVE}}

\* what one pass meets: any answer of the device with the store free and
\* the network up, or the plain answer with one tier locked or with failed
\* attempts
PassInputs ==
    {in \in DeviceCases \X Locks \X NetCases :
        \/ in[2] = {} /\ in[3] = NetUp
        \/ in[1] = DeviceCase(FALSE, 1, 0, "") /\ (in[2] = {} \/ in[3] = NetUp)}

\* start() has built the Service; do_loop is entered at clock 120
InitService ==
    /\ InitStore /\ InitAvg /\ InitLoop /\ InitRest
    /\ now = F(120)
    /\ cfg \in LoopConfigs
    /\ next_event = None

NextLoop ==
    \E oversleep \in Oversleeps, elapsed \in FetchTimes, in \in PassInputs :
        DoLoop(oversleep, elapsed, in[1], in[2], in[3])

SpecLoop == InitService /\ [][NextLoop]_vars

(***************************************************************************)
(* The archive cycle against slow fetches                                  *)
(***************************************************************************)
\* timeout-secs as start() defaults it
timeout_secs == 15

\* every attempt of collect_data runs into the connect timeout
NetDown == <<"ConnectTimeout", "ConnectTimeout", "ConnectTimeout">>

\* how long the attempts of one collect_data call take in all, and how they
\* end: a device that answers in half a second, or three attempts that each
\* wait timeout_secs for the connection (the two sleep(5) between them
\* come on top)
CycleInputs == {<<<<1, 2>>, NetUp>>, <<F(3 * timeout_secs), NetDown>>}

\* poll periods and archive intervals start() accepts (the interval a
\* multiple of the period), offset 0
CycleConfigs ==
    {[pollfreq_secs |-> 30, pollfreq_offset |-> 0, arcint_secs |-> 60],
     [pollfreq_secs |-> 60, pollfreq_offset |-> 0, arcint_secs |-> 60]}

\* do_loop is entered at clock 28
InitCycle ==
    /\ InitStore /\ InitAvg /\ InitLoop /\ InitRest
    /\ now = F(28)
    /\ cfg \in CycleConfigs
    /\ next_event = None

NextCycle ==
    \E oversleep \in Oversleeps, in \in CycleInputs :
        DoLoop(oversleep, in[1], DeviceCase(FALSE, 1, 0, ""), {}, in[2])

SpecCycle == InitCycle /\ [][NextCycle]_vars

(***************************************************************************)
(* compute_next_event against a running clock                              *)
(***************************************************************************)
\* poll periods, offsets and archive intervals start() accepts (the archive
\* interval a multiple of the poll period)
EventConfigs ==
    {[pollfreq_secs |-> p, pollfreq_offset |-> o, arcint_secs |-> k * p] :
        p \in {1, 2, 3, 60}, o \in {-3, 0, 2}, k \in {1, 2}}

\* the clock moves on by half a second; what the last call returned has
\* been used
Tick ==
    /\ FLess(now, F(MaxClock))
    /\ now' = FAdd(now, <<1, 2>>)
    /\ next_event' = None
    /\ UNCHANGED <<cfg, storeVars, avgVars, loopVars, restVars>>

\* event, secs_to_event = self.compute_next_event(first_time)
ComputeNextEvent ==
    /\ next_event' = Some([now           |-> now,
                           event         |-> compute_next_event(now, cfg).event,
                           secs_to_event |-> compute_next_event(now, cfg).secs_to_event])
    /\ UNCHANGED <<now, cfg, storeVars, avgVars, loopVars, restVars>>

InitEvent ==
    /\ InitStore /\ InitAvg /\ InitLoop /\ InitRest
    /\ now = F(0)
    /\ cfg \in EventConfigs
    /\ next_event = None

NextEvent == Tick \/ ComputeNextEvent

SpecEvent == InitEvent /\ [][NextEvent]_vars

(***************************************************************************)
(* collect_data against a network that fails                               *)
(***************************************************************************)
\* every way the three attempts of one call can end
AllNets == {<<a, b, c>> : a \in AttemptOutcomes, b \in AttemptOutcomes, c \in AttemptOutcomes}

\* One call of collect_data: the attempts with sleep(5) between them; the
\* attempts take `elapsed` altogether.
CollectData(net, elapsed) ==
    /\ FLess(now, F(MaxClock))
    /\ LET tries == fetch_attempts(net, 0)
       IN  /\ collected' = Some([net      |-> net,
                                 at       |-> now,
                                 attempts |-> tries.attempts,
                                 error    |-> tries.error,
                                 slept    |-> tries.slept])
           /\ now' = FAdd(FAdd(now, F(tries.slept)), elapsed)
    /\ UNCHANGED <<cfg, next_event, storeVars, avgVars, loopVars, served, txn, seen, heap, held, averaged>>

InitCollect ==
    /\ InitStore /\ InitAvg /\ InitLoop /\ InitRest
    /\ now = F(180)
    /\ cfg = DefaultConfig
    /\ next_event = None

NextCollect == \E net \in AllNets, elapsed \in FetchTimes : CollectData(net, elapsed)

SpecCollect == InitCollect /\ [][NextCollect]_vars

(***************************************************************************)
(* The query server: Handler                                               *)
(*                                                                         *)
(* A string is kept as the pieces str.split leaves of it: a request line   *)
(* is the sequence of its words, the request the sequence of its pieces    *)
(* between '?', the argument text the sequence of its pieces between ',',  *)
(* and an argument the sequence of its pieces between '='.  '/x?a=1,b'     *)
(* is <<"/x", <<<<"a", "1">>, <<"b">>>>>>.                                 *)
(***************************************************************************)
\* the empty string, split at ',' and then at '='
NoArgs == <<<<"">>>>

\* int(s) for the argument values in use; None when int() raises ValueError
int_of_str(str) ==
    CASE str = "0"  -> Some(0)
      [] str = "1"  -> Some(1)
      [] str = "2"  -> Some(2)
      [] str = "-1" -> Some(-1)
      [] OTHER      -> None

\* Handler.parse_args: the dict of key to value, a later argument
\* overwriting an earlier one with the same key
parse_args(args_in) ==
    LET withKey == {i \in 1..Len(args_in) : Len(args_in[i]) >= 2 /\ args_in[i][1] # ""}
        keys    == {args_in[i][1] : i \in withKey}
        last(k) == CHOOSE i \in withKey :
                       /\ args_in[i][1] = k
                       /\ \A j \in withKey : args_in[j][1] = k => j <= i
    IN  [k \in keys |-> args_in[last(k)][2]]

\* the command of a request routed to a request type, or the error message
\* (lines 97-116)
route(cmd, args) ==
    IF cmd = "/json" /\ args # NoArgs /\ args # <<<<"live", "true">>>>
    THEN [request_type |-> "ERROR",
          error |-> Some("If json cmd is specified, args must be empty or live=true.")]
    ELSE IF cmd = "/get-version"
    THEN [request_type |-> "GET_VERSION", error |-> None]
    ELSE IF cmd = "/get-earliest-timestamp"
    THEN [request_type |-> "GET_EARLIEST_TIMESTAMP", error |-> None]
    ELSE IF cmd = "/fetch-current-record" \/ (cmd = "/json" /\ args = <<<<"live", "true">>>>)
    THEN [request_type |-> "FETCH_CURRENT_RECORD", error |-> None]
    ELSE IF cmd = "/fetch-two-minute-record" \/ cmd = "/json"
    THEN [request_type |-> "FETCH_TWO_MINUTE_RECORD", error |-> None]
    ELSE IF cmd = "/fetch-archive-records"
    THEN [request_type |-> "FETCH_ARCHIVE_RECORDS", error |-> None]
    ELSE IF cmd = "/"
    THEN [request_type |-> "ERROR", error |-> Some("A command must be specified.")]
    ELSE [request_type |-> "ERROR", error |-> Some("Unknown command")]

\* int_arg passing over a max_ts or limit that int() rejects
int_arg_bad_optional_ignored(req, args_dict, key) ==
    IF key \notin DOMAIN args_dict THEN req
    ELSE IF IsNone(int_of_str(args_dict[key]))
    THEN IF key = "since_ts"
         THEN [req EXCEPT !.request_type = "ERROR",
                          !.error = Some(<<"must be an integer", key, args_dict[key]>>)]
         ELSE req
    ELSE [req EXCEPT ![key] = int_of_str(args_dict[key])]

\* one `try: x = int(args_dict[key]) except: ...` of parse_requestline
\* applied to the Request built so far
int_arg(req, args_dict, key) ==
    IF key \notin DOMAIN args_dict THEN req
    ELSE IF IsNone(int_of_str(args_dict[key]))
    THEN [req EXCEPT !.request_type = "ERROR",
                     !.error = Some(<<"must be an integer", key, args_dict[key]>>)]
    ELSE [req EXCEPT ![key] = int_of_str(args_dict[key])]

\* parse_requestline treating since_ts = 0 as a missing argument
parse_requestline_zero_missing(requestline) ==
    LET request == requestline[2]
        cmd     == request[1]
        args    == IF Len(request) >= 2 THEN request[2] ELSE NoArgs
        routed  == route(cmd, args)
        req0    == [request_type |-> routed.request_type, since_ts |-> None,
                    max_ts |-> None, limit |-> None, error |-> routed.error,
                    request |-> request]
        args_dict == parse_args(args)
    IN  IF routed.request_type # "FETCH_ARCHIVE_RECORDS" THEN req0
        ELSE IF "since_ts" \notin DOMAIN args_dict \/ args_dict["since_ts"] = "0"
        THEN [req0 EXCEPT !.request_type = "ERROR",
                          !.error = Some("fetch-archive-records requires since_ts argument")]
        ELSE int_arg(int_arg(int_arg(req0, args_dict, "since_ts"),
                             args_dict, "max_ts"), args_dict, "limit")

\* Handler.parse_requestline: the Request
parse_requestline(requestline) ==
    LET request == requestline[2]
        cmd     == request[1]
        args    == IF Len(request) >= 2 THEN request[2] ELSE NoArgs
        routed  == route(cmd, args)
        req0    == [request_type |-> routed.request_type, since_ts |-> None,
                    max_ts |-> None, limit |-> None, error |-> routed.error,
                    request |-> request]
        args_dict == parse_args(args)
    IN  IF routed.request_type # "FETCH_ARCHIVE_RECORDS" THEN req0
        ELSE IF "since_ts" \notin DOMAIN args_dict
        THEN [req0 EXCEPT !.request_type = "ERROR",
                          !.error = Some("fetch-archive-records requires since_ts argument")]
        ELSE int_arg(int_arg(int_arg(req0, args_dict, "since_ts"),
                             args_dict, "max_ts"), args_dict, "limit")

\* respond_success(json) after a Database call: the exception when the call
\* raised (nothing in do_GET catches it)
respond_fetched(res) ==
    IF res.raised THEN [ending |-> "exception", body |-> None]
    ELSE [ending |-> "success", body |-> Some(res.out)]

\* fetch_current_reading_as_json, fetch_two_minute_reading_as_json: the
\* first Reading the generator yields, '{}' when it yields none
first_reading(res) ==
    IF Len(res.out) >= 1 THEN [out |-> <<res.out[1]>>, raised |-> FALSE]
    ELSE [out |-> << >>, raised |-> res.raised]

\* get_earliest_timestamp_as_json
get_earliest_timestamp(d) ==
    LET stamps == {x.timestamp : x \in {y \in d.Reading : y.record_type = ARCHIVE}}
    IN  IF stamps = {} THEN << >>
        ELSE <<CHOOSE t \in stamps : \A u \in stamps : t <= u>>

\* Handler.do_GET on database d: how handling ends (a success response, an
\* error response, a failed assertion or an exception) and what is sent
do_GET(d, requestline) ==
    LET request == parse_requestline(requestline)
        type    == request.request_type
    IN  IF type = "GET_VERSION"
        THEN [ending |-> "success", body |-> Some(<<"version">>)]
        ELSE IF type = "GET_EARLIEST_TIMESTAMP"
        THEN [ending |-> "success", body |-> Some(get_earliest_timestamp(d))]
        ELSE IF type = "FETCH_CURRENT_RECORD"
        THEN respond_fetched(first_reading(fetch_readings(d, CURRENT, 0, None, None, EngineTie)))
        ELSE IF type = "FETCH_TWO_MINUTE_RECORD"
        THEN respond_fetched(first_reading(fetch_readings(d, TWO_MINUTE, 0, None, None, EngineTie)))
        ELSE IF type = "FETCH_ARCHIVE_RECORDS"
        THEN IF Val(request.since_ts) = 0
             THEN [ending |-> "AssertionError", body |-> None]
             ELSE respond_fetched(fetch_readings(d, ARCHIVE, Val(request.since_ts),
                                                 request.max_ts, request.limit, EngineTie))
        ELSE [ending |-> "error", body |-> request.error]

\* the commands and argument texts of the request lines sent
RequestCmds ==
    {"/json", "/get-version", "/get-earliest-timestamp", "/fetch-current-record",
     "/fetch-two-minute-record", "/fetch-archive-records", "/", "/bogus"}

RequestArgs ==
    {NoArgs,
     <<<<"live", "true">>>>,
     <<<<"since_ts", "0">>>>,
     <<<<"since_ts", "1">>>>,
     <<<<"since_ts", "-1">>>>,
     <<<<"since_ts", "abc">>>>,
     <<<<"since_ts", "">>>>,
     <<<<"since_ts">>>>,
     <<<<"max_ts", "2">>>>,
     <<<<"since_ts", "1">>, <<"max_ts", "2">>>>,
     <<<<"since_ts", "1">>, <<"max_ts", "x">>>>,
     <<<<"since_ts", "0">>, <<"max_ts", "x">>>>,
     <<<<"since_ts", "1">>, <<"limit", "1">>>>,
     <<<<"since_ts", "1">>, <<"limit", "x">>>>,
     <<<<"since_ts", "abc">>, <<"since_ts", "1">>>>,
     <<<<"", "5">>, <<"since_ts", "1", "2">>>>}

\* 'GET <request> HTTP/1.1', with and without a '?'
RequestLines ==
    {<<"GET", <<cmd, args>>, "HTTP/1.1">> : cmd \in RequestCmds, args \in RequestArgs}
        \cup {<<"GET", <<cmd>>, "HTTP/1.1">> : cmd \in RequestCmds}

\* a request line reaches Handler.do_GET
DoGet(requestline) ==
    /\ served' = Some([requestline |-> requestline,
                       request     |-> parse_requestline(requestline),
                       response    |-> do_GET(db, requestline)])
    /\ UNCHANGED <<storeVars, avgVars, loopVars, clockVars, collected, txn, seen, heap, held, averaged>>

\* what the sampling loop has put into the store the server reads
ServedSaves ==
    {<<CURRENT, Sample(2, 1)>>, <<TWO_MINUTE, Sample(1, 2)>>,
     <<ARCHIVE, Sample(1, 1)>>, <<ARCHIVE, Sample(2, 2)>>}

NextServer ==
    \/ \E requestline \in RequestLines : DoGet(requestline)
    \/ \E save \in ServedSaves : SaveReading(save[1], save[2])

SpecServer == Init /\ [][NextServer]_vars

(***************************************************************************)
(* What the tables hold, read off the rows directly                        *)
(***************************************************************************)
StoredTimestamps(d, record_type) ==
    {x.timestamp : x \in {y \in d.Reading : y.record_type = record_type}}

HasSensorRow(d, record_type, ts, sensor_number) ==
    \E x \in d.Sensor : /\ x.record_type = record_type
                        /\ x.timestamp = ts
                        /\ x.sensor = sensor_number

SensorRow(d, record_type, ts, sensor_number) ==
    CHOOSE x \in d.Sensor : /\ x.record_type = record_type
                            /\ x.timestamp = ts
                            /\ x.sensor = sensor_number

SensorOfSensorRow(x) ==
    [pm1_0_cf_1  |-> x.pm1_0_cf_1,  pm1_0_atm  |-> x.pm1_0_atm,
     pm2_5_cf_1  |-> x.pm2_5_cf_1,  pm2_5_atm  |-> x.pm2_5_atm,
     pm10_0_cf_1 |-> x.pm10_0_cf_1, pm10_0_atm |-> x.pm10_0_atm,
     p_0_3_um    |-> x.p_0_3_um,    p_0_5_um   |-> x.p_0_5_um,
     p_1_0_um    |-> x.p_1_0_um,    p_2_5_um   |-> x.p_2_5_um,
     p_5_0_um    |-> x.p_5_0_um,    p_10_0_um  |-> x.p_10_0_um,
     pm2_5_aqi   |-> x.pm2_5_aqi,
     p25aqic     |-> RGB(x.p25aqi_red, x.p25aqi_green, x.p25aqi_blue)]

\* the Reading stored under (record_type, ts)
StoredReading(d, record_type, ts) ==
    LET rr == CHOOSE x \in d.Reading : x.record_type = record_type /\ x.timestamp = ts
    IN  [time_of_reading        |-> rr.timestamp,
         current_temp_f         |-> rr.current_temp_f,
         current_humidity       |-> rr.current_humidity,
         current_dewpoint_f     |-> rr.current_dewpoint_f,
         pressure               |-> rr.pressure,
         current_temp_f_680     |-> rr.current_temp_f_680,
         current_humidity_680   |-> rr.current_humidity_680,
         current_dewpoint_f_680 |-> rr.current_dewpoint_f_680,
         pressure_680           |-> rr.pressure_680,
         gas_680                |-> rr.gas_680,
         sensor                 |-> SensorOfSensorRow(SensorRow(d, record_type, ts, Sensor_A)),
         sensor_b               |->
             IF HasSensorRow(d, record_type, ts, Sensor_B)
             THEN Some(SensorOfSensorRow(SensorRow(d, record_type, ts, Sensor_B)))
             ELSE None]

\* the stored timestamps of a tier that a fetch with these bounds covers
InRange(d, record_type, since_ts, max_ts) ==
    {t \in StoredTimestamps(d, record_type) :
        t > since_ts /\ (IsNone(max_ts) \/ t <= Val(max_ts))}

(***************************************************************************)
(* Claims about the store                                                  *)
(***************************************************************************)

\* C1: a Reading saved to ARCHIVE in an empty store and fetched with
\* since_ts = 0 comes back as exactly one Reading, equal to the saved one in
\* every field, sensor_b and each secondary-suite field included.
C1_RoundTripArchive ==
    (op.name = "save" /\ op.record_type = ARCHIVE /\ op.fresh) =>
        /\ ~op.raised
        /\ fetch_readings(db, ARCHIVE, 0, None, None, EngineTie)
               = [out |-> <<op.r>>, raised |-> FALSE]

\* C2: once a save to CURRENT (or TWO_MINUTE) has succeeded, and whatever
\* saves to any tier followed, fetching that tier yields exactly one Reading,
\* equal to the Reading of the tier's last successful save.
C2_ReplaceKeepsLatest ==
    \A t \in ReplaceTiers :
        ~IsNone(lastSaved[t]) =>
            fetch_readings(db, t, 0, None, None, EngineTie)
                = [out |-> <<Val(lastSaved[t])>>, raised |-> FALSE]

\* C3: a save to ARCHIVE keeps every ARCHIVE row of both tables as it was;
\* when the Reading's timestamp is already stored in ARCHIVE the call raises
\* and a fetch of that timestamp returns the one Reading it returned before.
C3_ArchiveInsertOnly ==
    [][ (op'.name = "save" /\ op'.record_type = ARCHIVE) =>
            /\ \A x \in tblReading : x.record_type = ARCHIVE => x \in tblReading'
            /\ \A x \in tblSensor : x.record_type = ARCHIVE => x \in tblSensor'
            /\ LET ts == op'.r.time_of_reading
               IN  ts \in StoredTimestamps(db, ARCHIVE) =>
                       /\ op'.raised
                       /\ ~fetch_readings(db, ARCHIVE, ts - 1, Some(ts), None, EngineTie).raised
                       /\ Len(fetch_readings(db, ARCHIVE, ts - 1, Some(ts), None, EngineTie).out) = 1
                       /\ fetch_readings(db', ARCHIVE, ts - 1, Some(ts), None, EngineTie)
                              = fetch_readings(db, ARCHIVE, ts - 1, Some(ts), None, EngineTie)
      ]_vars

\* C3 witness: a single-sensor Reading whose INSERT is well formed was refused
\* because ARCHIVE already holds a dual-sensor Reading at its timestamp.
C3_Witness ==
    /\ op.name = "save"
    /\ op.record_type = ARCHIVE
    /\ op.raised
    /\ ~IsNone(insert_reading_sql(ARCHIVE, op.r.time_of_reading, op.r))
    /\ IsNone(op.r.sensor_b)
    /\ op.r.time_of_reading \in StoredTimestamps(db, ARCHIVE)
    /\ ~IsNone(StoredReading(db, ARCHIVE, op.r.time_of_reading).sensor_b)

\* C4: a fetch without a limit yields one Reading for each stored timestamp
\* of the tier in range, with sensor_b exactly where a sensor-index-1 row is
\* stored, in whatever order the ORDER BY clause lets tied rows arrive.
C4_OneReadingPerTimestamp ==
    (op.name = "fetch" /\ IsNone(op.limit)) =>
        LET ts == InRange(db, op.record_type, op.since_ts, op.max_ts)
        IN  /\ ~op.raised
            /\ Len(op.out) = Cardinality(ts)
            /\ \A t \in ts :
                   \E i \in 1..Len(op.out) :
                       /\ op.out[i].time_of_reading = t
                       /\ ~IsNone(op.out[i].sensor_b)
                              <=> HasSensorRow(db, op.record_type, t, Sensor_B)

\* C5: a fetch without a limit returns the stored Readings of the tier with
\* since_ts < t, and t <= max_ts when max_ts is given, each exactly once and
\* in strictly ascending order of timestamp.
C5_FetchReturnsRange ==
    (op.name = "fetch" /\ IsNone(op.limit)) =>
        LET ts == InRange(db, op.record_type, op.since_ts, op.max_ts)
        IN  /\ ~op.raised
            /\ Len(op.out) = Cardinality(ts)
            /\ \A i \in 1..Len(op.out) :
                   /\ op.out[i].time_of_reading \in ts
                   /\ op.out[i] = StoredReading(db, op.record_type, op.out[i].time_of_reading)
            /\ \A i, j \in 1..Len(op.out) :
                   i < j => op.out[i].time_of_reading < op.out[j].time_of_reading

\* C5 witness: ARCHIVE holds timestamps 1 and 2; a fetch with since_ts = 1
\* and max_ts = 2 returned the dual-sensor Reading at 2 alone.
C5_Witness ==
    /\ op.name = "fetch"
    /\ op.record_type = ARCHIVE
    /\ IsNone(op.limit)
    /\ op.since_ts = 1
    /\ op.max_ts = Some(2)
    /\ {1, 2} \subseteq StoredTimestamps(db, ARCHIVE)
    /\ Len(op.out) = 1
    /\ op.out[1].time_of_reading = 2
    /\ ~IsNone(op.out[1].sensor_b)

\* a sensor-index-1 row that does not directly follow a sensor-index-0 row
\* of the same timestamp
Malformed(rowSeq) ==
    \E k \in 1..Len(rowSeq) :
        /\ Col(rowSeq[k], 10) = Sensor_B
        /\ \/ k = 1
           \/ Col(rowSeq[k - 1], 10) # Sensor_A
           \/ Col(rowSeq[k - 1], 0) # Col(rowSeq[k], 0)

\* C6: when the rows reach the loop of fetch_readings in a malformed order
\* (a sensor-index-1 row not directly after the sensor-index-0 row of its
\* own timestamp), the read raises.
C6_MalformedOrderAborts ==
    op.name = "fetch" =>
        (Malformed(CursorRows(db, op.record_type, op.since_ts, op.max_ts, op.limit, op.tie))
            => op.raised)

(***************************************************************************)
(* Claims about compute_avg                                                *)
(***************************************************************************)
\* the integer fields of a Reading and of a SensorData, in a fixed order
IntFields(r) == <<r.current_temp_f, r.current_humidity, r.current_dewpoint_f>>
SuiteIntFields(r) == <<Val(r.current_temp_f_680), Val(r.current_humidity_680),
                       Val(r.current_dewpoint_f_680)>>
SensorIntFields(sd) == <<sd.pm2_5_aqi, sd.p25aqic.red, sd.p25aqic.green, sd.p25aqic.blue>>

\* the sum of the j-th entry of the tuples ints[1..k]
RECURSIVE SumEntry(_, _, _)
SumEntry(ints, k, j) == IF k = 0 THEN 0 ELSE ints[k][j] + SumEntry(ints, k - 1, j)

\* every entry of `got` is floor(sum / n + 0.5) of that entry over `ints`
IsFloorHalfUp(got, ints) ==
    \A j \in 1..Len(got) : got[j] = FloorHalfUp(SumEntry(ints, Len(ints), j), Len(ints))

\* C7: every integer field of the result of compute_avg (temperature,
\* humidity, dewpoint, their secondary-suite counterparts, AQI and the RGB
\* components of each sensor) is floor(sum / n + 0.5) of the field over the
\* n inputs, negative temperatures and dewpoints included.
C7_IntegerFieldsFloorHalfUp ==
    ~IsNone(avg_reading) =>
        LET a == Val(avg_reading)
            n == Len(readings)
        IN  /\ IsFloorHalfUp(IntFields(a), [i \in 1..n |-> IntFields(readings[i])])
            /\ IsFloorHalfUp(SensorIntFields(a.sensor),
                             [i \in 1..n |-> SensorIntFields(readings[i].sensor)])
            /\ (\A i \in 1..n : ~IsNone(readings[i].sensor_b)) =>
                   /\ ~IsNone(a.sensor_b)
                   /\ IsFloorHalfUp(SensorIntFields(Val(a.sensor_b)),
                          [i \in 1..n |-> SensorIntFields(Val(readings[i].sensor_b))])
            /\ (\A i \in 1..n : SuiteAllPresent(readings[i])) =>
                   /\ SuiteAllPresent(a)
                   /\ IsFloorHalfUp(SuiteIntFields(a),
                          [i \in 1..n |-> SuiteIntFields(readings[i])])

\* C8: compute_avg of a list of one Reading returns a Reading equal to it in
\* every field.
C8_SingletonUnchanged ==
    (~IsNone(avg_reading) /\ Len(readings) = 1) => Val(avg_reading) = readings[1]

\* C9: the Reading compute_avg returns carries the timestamp of the last
\* element of its input.
C9_AvgTimeIsLast ==
    ~IsNone(avg_reading) =>
        Val(avg_reading).time_of_reading = readings[Len(readings)].time_of_reading

\* C9 witness: three Readings averaged, the last one older than the first
\* two, so the last timestamp is neither the first nor the greatest.
C9_Witness ==
    /\ ~IsNone(avg_reading)
    /\ Len(readings) = 3
    /\ readings[1].time_of_reading = 2
    /\ readings[2].time_of_reading = 2
    /\ readings[3].time_of_reading = 1
    /\ Val(avg_reading).time_of_reading = 1

\* C10: the result of compute_avg has all five secondary-suite fields or
\* none of them, and has them exactly when every input has all five; lists
\* of one Reading included.
C10_SuiteAllOrNothing ==
    ~IsNone(avg_reading) =>
        LET a == Val(avg_reading)
        IN  /\ SuiteAllPresent(a) \/ SuiteAllAbsent(a)
            /\ SuiteAllPresent(a) <=>
                   \A i \in 1..Len(readings) : SuiteAllPresent(readings[i])

(***************************************************************************)
(* Claims about the sampling loop                                          *)
(***************************************************************************)
TierRows(rows, record_type) == {x \in rows : x.record_type = record_type}

\* s is what is left of t after dropping some of its first elements
IsSuffix(s, t) == \E k \in 0..Len(t) : s = SubSeq(t, k + 1, Len(t))

\* the device's answer is a Reading that validation must refuse: a field
\* that has to be an int or a float arrived with another type
FailsValidation(answer) ==
    /\ ~answer.raised
    /\ \/ answer.wrong \in {"current_temp_f", "pressure"}
       \/ answer.wrong = "pm2.5_aqi_b" /\ ~IsNone(Sample(answer.kind, 0).sensor_b)

PassesValidation(answer) == ~answer.raised /\ ~FailsValidation(answer)

\* C11: a pass of the loop whose Reading fails validation appends nothing
\* to the 2-minute list (it only loses what the trim drops) nor to the
\* archive list, calls no CURRENT save and leaves the CURRENT rows of both
\* tables as they were.
C11_InsaneReadingDropped ==
    [][ (it'.name = "pass" /\ FailsValidation(it'.answer)) =>
            /\ IsSuffix(two_minute_readings', two_minute_readings)
            /\ it'.archive_at_event = archive_readings
            /\ archive_readings' \in {archive_readings, << >>}
            /\ IsNone(it'.current)
            /\ TierRows(tblReading', CURRENT) = TierRows(tblReading, CURRENT)
            /\ TierRows(tblSensor', CURRENT) = TierRows(tblSensor, CURRENT)
      ]_vars

\* C11 witness: a Reading with pressure sent as an integer was dropped while
\* both lists and the CURRENT tier held an earlier Reading.
C11_Witness ==
    /\ it.name = "pass"
    /\ FailsValidation(it.answer)
    /\ ~it.kept
    /\ Len(two_minute_readings) >= 1
    /\ Len(archive_readings) >= 1
    /\ StoredTimestamps(db, CURRENT) # {}

\* C12: a pass whose Reading passes validation appends it as the last
\* element of both lists; when the CURRENT save does not raise, fetching
\* CURRENT yields exactly that Reading; when it raises, the Reading is still
\* the last element of both lists (the archive list is emptied only by a
\* successful ARCHIVE save of the same pass).
C12_SaneReadingKept ==
    [][ (it'.name = "pass" /\ PassesValidation(it'.answer)) =>
            LET r == Val(it'.fetched)
                n == Len(two_minute_readings')
            IN  /\ n >= 1
                /\ two_minute_readings'[n] = r
                /\ IsSuffix(SubSeq(two_minute_readings', 1, n - 1), two_minute_readings)
                /\ it'.archive_at_event = Append(archive_readings, r)
                /\ \/ archive_readings' = it'.archive_at_event
                   \/ /\ archive_readings' = << >>
                      /\ ~IsNone(it'.archive)
                      /\ ~Val(it'.archive).raised
                /\ ~IsNone(it'.current)
                /\ ~Val(it'.current).raised =>
                       fetch_readings(db', CURRENT, 0, None, None, EngineTie)
                           = [out |-> <<r>>, raised |-> FALSE]
      ]_vars

\* C13: a pass whose fetch or parse raises appends nothing to either list
\* and calls no CURRENT save; it still saves the average of the 2-minute
\* list when that list is not empty and, on an ARCHIVE event, the average of
\* the archive list when that list is not empty.
C13_FetchErrorStillAggregates ==
    [][ (it'.name = "pass" /\ it'.answer.raised) =>
            /\ IsSuffix(two_minute_readings', two_minute_readings)
            /\ it'.archive_at_event = archive_readings
            /\ IsNone(it'.fetched)
            /\ IsNone(it'.current)
            /\ Len(two_minute_readings') > 0 =>
                   /\ ~IsNone(it'.two_minute)
                   /\ Val(it'.two_minute).r =
                          [compute_avg(two_minute_readings') EXCEPT !.time_of_reading =
                              two_minute_readings'[Len(two_minute_readings')].time_of_reading]
                   /\ ~Val(it'.two_minute).raised =>
                          StoredTimestamps(db', TWO_MINUTE) =
                              {Val(it'.two_minute).r.time_of_reading}
            /\ (it'.event = Event_ARCHIVE /\ Len(archive_readings) > 0) =>
                   /\ ~IsNone(it'.archive)
                   /\ [Val(it'.archive).r EXCEPT !.time_of_reading = 0] =
                          [compute_avg(archive_readings) EXCEPT !.time_of_reading = 0]
                   /\ ~Val(it'.archive).raised =>
                          Val(it'.archive).r.time_of_reading
                              \in StoredTimestamps(db', ARCHIVE)
      ]_vars

\* C13 witness: the fetch raised on an ARCHIVE event while both lists held
\* Readings; both averages were saved.
C13_Witness ==
    /\ it.name = "pass"
    /\ it.answer.raised
    /\ it.event = Event_ARCHIVE
    /\ Len(it.archive_at_event) >= 1
    /\ ~IsNone(it.two_minute)
    /\ ~Val(it.two_minute).raised
    /\ ~IsNone(it.archive)
    /\ ~Val(it.archive).raised

\* C14: an ARCHIVE event whose archive step finds the archive list empty
\* calls no ARCHIVE save, leaves the ARCHIVE rows of both tables as they
\* were and leaves the list empty.
C14_EmptyArchiveEventWritesNothing ==
    [][ (it'.name = "pass" /\ it'.event = Event_ARCHIVE /\ it'.archive_at_event = << >>) =>
            /\ IsNone(it'.archive)
            /\ TierRows(tblReading', ARCHIVE) = TierRows(tblReading, ARCHIVE)
            /\ TierRows(tblSensor', ARCHIVE) = TierRows(tblSensor, ARCHIVE)
            /\ archive_readings' = << >>
      ]_vars

\* C14 witness: an ARCHIVE event found the archive list empty while the
\* 2-minute list still held a Reading whose average was saved, and ARCHIVE
\* held a record of an earlier event.
C14_Witness ==
    /\ it.name = "pass"
    /\ it.event = Event_ARCHIVE
    /\ it.archive_at_event = << >>
    /\ IsNone(it.archive)
    /\ ~IsNone(it.two_minute)
    /\ ~Val(it.two_minute).raised
    /\ StoredTimestamps(db, ARCHIVE) # {}

\* C15: after every pass whose event is ARCHIVE the archive list is empty,
\* also when the ARCHIVE save raised.
C15_ArchiveBufferClearedOnArchiveEvent ==
    (it.name = "pass" /\ it.event = Event_ARCHIVE) => archive_readings = << >>

\* C16: the timestamp ts of an archive record stamped at clock value `done`
\* is a multiple of the archive interval A with ts <= done + 5 < ts + A.
C16_ArchiveTimestampAligned ==
    (it.name = "pass" /\ ~IsNone(it.archive)) =>
        LET ts == Val(it.archive).r.time_of_reading
            A  == cfg.arcint_secs
            plus5 == FAdd(it.done, F(5))
        IN  /\ ts % A = 0
            /\ ~FLess(plus5, F(ts))
            /\ FLess(plus5, F(ts + A))

\* C16 witness: the record was stamped before the boundary it is stamped
\* with (the loop woke three seconds early), at a clock value with a
\* fraction of a second.
C16_Witness ==
    /\ it.name = "pass"
    /\ ~IsNone(it.archive)
    /\ FLess(it.done, F(Val(it.archive).r.time_of_reading))
    /\ it.done[2] # 1

\* the smallest multiple of P strictly greater than the clock value
NextMultiple(clock, P) ==
    CHOOSE m \in 0..(WholeSeconds(clock) + P) :
        /\ m % P = 0
        /\ FLess(clock, F(m))
        /\ \A k \in 0..(m - 1) : k % P = 0 => ~FLess(clock, F(k))

\* C17: the first pass is a POLL event with no sleep before it; on every
\* later turn of the loop the event is ARCHIVE exactly when the next
\* multiple of the poll period after the clock value is a multiple of the
\* archive interval (which is a multiple of the poll period), POLL otherwise.
C17_EventClassification ==
    /\ cfg.arcint_secs % cfg.pollfreq_secs = 0
    /\ (it.name = "pass" /\ it.first) =>
            /\ it.event = Event_POLL
            /\ it.slept = F(0)
            /\ it.wake = it.top
    /\ (it.name = "pass" /\ ~it.first) =>
            /\ it.event \in {Event_POLL, Event_ARCHIVE}
            /\ it.event = Event_ARCHIVE <=>
                   NextMultiple(it.top, cfg.pollfreq_secs) % cfg.arcint_secs = 0
    /\ ~IsNone(next_event) =>
            /\ Val(next_event).event \in {Event_POLL, Event_ARCHIVE}
            /\ Val(next_event).event = Event_ARCHIVE <=>
                   NextMultiple(Val(next_event).now, cfg.pollfreq_secs) % cfg.arcint_secs = 0

\* C17 witness: with the archive interval twice the poll period, a later
\* pass was an ARCHIVE event after an earlier later pass was a POLL event
\* (its archive list holds more than the Reading just fetched).
C17_Witness ==
    /\ cfg.arcint_secs > cfg.pollfreq_secs
    /\ it.name = "pass"
    /\ ~it.first
    /\ it.event = Event_ARCHIVE
    /\ Len(it.archive_at_event) >= 3

\* C18: compute_next_event at clock value now returns a sleep d with
\* now + d = m + O, m the smallest multiple of the poll period strictly
\* greater than now and O the poll offset.
C18_SleepReachesNextMultiple ==
    ~IsNone(next_event) =>
        LET e == Val(next_event)
        IN  FAdd(e.now, e.secs_to_event) =
                F(NextMultiple(e.now, cfg.pollfreq_secs) + cfg.pollfreq_offset)

\* C18 witness: the function ran at a clock value with a fraction of a
\* second, and at one exactly on a multiple of the poll period, with a
\* negative offset larger than the distance to the multiple.
C18_Witness ==
    /\ ~IsNone(next_event)
    /\ cfg.pollfreq_secs = 2
    /\ cfg.pollfreq_offset = -3
    /\ Val(next_event).now = <<7, 2>>
    /\ FLess(Val(next_event).secs_to_event, F(0))

\* the members of buf whose timestamp is not older than clock - 120 seconds
WithinTwoMinutes(buf, clock) ==
    LET InWindow(r) == ~FLess(F(r.time_of_reading), two_minutes_ago(clock))
    IN  SelectSeq(buf, InWindow)

\* C19: the trim of a pass, run at clock value `wake`, leaves in the
\* 2-minute list exactly its previous members whose timestamp is not older
\* than wake - 120 seconds, whatever the order of the timestamps in the list.
C19_TrimKeepsExactlyTheWindow ==
    [][ it'.name = "pass" =>
            it'.trimmed = WithinTwoMinutes(two_minute_readings, it'.wake)
      ]_vars

\* C20: in every pass the TWO_MINUTE save is called exactly when the
\* 2-minute list is not empty after the fetch step; when it is called and
\* does not raise, fetching TWO_MINUTE yields exactly the average of the
\* list's members stamped with the last member's time; when the list is
\* empty the TWO_MINUTE rows of both tables are left as they were.
C20_TwoMinuteRecordWritten ==
    [][ it'.name = "pass" =>
            LET n == Len(two_minute_readings')
            IN  /\ ~IsNone(it'.two_minute) <=> n > 0
                /\ n > 0 =>
                       /\ Val(it'.two_minute).r =
                              [compute_avg(two_minute_readings') EXCEPT
                                  !.time_of_reading =
                                      two_minute_readings'[n].time_of_reading]
                       /\ ~Val(it'.two_minute).raised =>
                              fetch_readings(db', TWO_MINUTE, 0, None, None, EngineTie)
                                  = [out |-> <<Val(it'.two_minute).r>>, raised |-> FALSE]
                /\ n = 0 =>
                       /\ TierRows(tblReading', TWO_MINUTE) = TierRows(tblReading, TWO_MINUTE)
                       /\ TierRows(tblSensor', TWO_MINUTE) = TierRows(tblSensor, TWO_MINUTE)
      ]_vars

(***************************************************************************)
(* Claims about failures, validation limits and retries                    *)
(***************************************************************************)
\* C21: the loop never ends on its own: whatever the device and the store
\* do, every turn of the while loop completes its pass and leaves the loop
\* running for the next turn.
C21_LoopNeverTerminates == it.name # "crashed"

\* C23: no Reading whose timestamp is more than 20 seconds away from the
\* clock at validation (the end of the fetch) passes validation, so none is
\* appended to a list or saved as CURRENT.
C23_StaleReadingRejected ==
    (it.name = "pass" /\ it.kept) =>
        LET ts == F(Val(it.fetched).time_of_reading)
        IN  /\ ~FLess(FAdd(ts, F(20)), it.done)
            /\ ~FLess(FAdd(it.done, F(20)), ts)

\* the two sensors disagree on a channel: neither value is zero, one is more
\* than twenty times the other and they are at least 10.0 apart
Disagree(a, b) ==
    /\ a # F(0) /\ b # F(0)
    /\ \/ FLess([a EXCEPT ![1] = 20 * a[1]], b)
       \/ FLess([b EXCEPT ![1] = 20 * b[1]], a)
    /\ \/ ~FLess(FSub(a, b), F(10))
       \/ ~FLess(FSub(b, a), F(10))

\* C25: no dual-sensor Reading whose sensors disagree that way on one of the
\* three cf-1 channels passes validation, so none is appended to a list or
\* saved as CURRENT.
C25_CrossSensorDisagreementRejected ==
    (it.name = "pass" /\ it.kept /\ ~IsNone(Val(it.fetched).sensor_b)) =>
        LET A == Val(it.fetched).sensor
            B == Val(Val(it.fetched).sensor_b)
        IN  /\ ~Disagree(A.pm1_0_cf_1, B.pm1_0_cf_1)
            /\ ~Disagree(A.pm2_5_cf_1, B.pm2_5_cf_1)
            /\ ~Disagree(A.pm10_0_cf_1, B.pm10_0_cf_1)

\* the exceptions of an attempt that are connection-level errors
ConnectionLevel == {"ConnectionError", "ConnectTimeout"}

\* C26: a collect_data call makes at most three attempts; every attempt
\* before the last one ended in a connection-level error; the call returns
\* after the first attempt that succeeds; a third connection-level error in
\* a row is propagated; any other error is propagated by the attempt that
\* met it, without a retry.
C26_AtMostThreeAttempts ==
    ~IsNone(collected) =>
        LET c    == Val(collected)
            last == c.net[c.attempts]
        IN  /\ c.attempts \in 1..3
            /\ \A i \in 1..(c.attempts - 1) : c.net[i] \in ConnectionLevel
            /\ c.slept = 5 * (c.attempts - 1)
            /\ last = "ok" <=> IsNone(c.error)
            /\ last # "ok" => c.error = Some(last)
            /\ last \in ConnectionLevel => c.attempts = 3

\* C26 witness: a call that returned on its third attempt after two
\* connection errors and ten seconds of sleep.
C26_Witness ==
    /\ ~IsNone(collected)
    /\ Val(collected).net = <<"ConnectionError", "ConnectionError", "ok">>
    /\ Val(collected).attempts = 3
    /\ IsNone(Val(collected).error)
    /\ Val(collected).slept = 10

\* C27: a pass of the loop makes at most one fetch attempt; a failed fetch
\* is retried only by the pass of the next wake.
C27_OneAttemptPerPass == it.name = "pass" => it.attempts <= 1

\* C22: whatever request line reaches the GET handler, handling ends in a
\* success response or in an error response, never in an exception or a
\* failed assertion; a /fetch-archive-records request with since_ts=0 too.
C22_RequestAlwaysAnswered ==
    ~IsNone(served) => Val(served).response.ending \in {"success", "error"}

\* C28: a fetch on another connection never observes a save half done.
\* While save_reading has its transaction open the fetch returns what it
\* would have returned before the save began; once a CURRENT or
\* TWO_MINUTE Reading has been committed, a fetch of that tier returns
\* exactly one Reading, with sensor_b if and only if the committed Reading
\* has one.
C28_FetchSeesNoHalfDoneSave ==
    ~IsNone(seen) =>
        LET s == Val(seen)
        IN  /\ ~IsNone(s.during) =>
                   s.res = fetch_readings(Val(s.during).before, s.record_type,
                                          0, None, None, EngineTie)
            /\ ~IsNone(s.latest) =>
                   /\ Len(s.res.out) = 1
                   /\ IsNone(s.res.out[1].sensor_b) = IsNone(Val(s.latest).sensor_b)

\* a fetch of CURRENT runs after the DELETEs of a CURRENT save and before
\* its INSERTs, and returns the dual-sensor Reading committed before
C28_Witness ==
    /\ ~IsNone(seen)
    /\ ~IsNone(Val(seen).during)
    /\ Val(seen).record_type = CURRENT
    /\ Val(Val(seen).during).record_type = CURRENT
    /\ Val(Val(seen).during).pc = "reading"
    /\ ~IsNone(Val(seen).latest)
    /\ ~IsNone(Val(Val(seen).latest).sensor_b)
    /\ Len(Val(seen).res.out) = 1

\* C30: a save_reading call that raises leaves both tables as they were
\* when it was called, whatever the tier and whatever raised; a CURRENT or
\* TWO_MINUTE Reading committed before a failed replace is still there to
\* be fetched.
C30_FailedSaveChangesNothing ==
    (op.name = "save" /\ op.raised) =>
        /\ db = op.before
        /\ \A t \in ReplaceTiers :
              ~IsNone(lastSaved[t]) =>
                  Len(fetch_readings(db, t, 0, None, None, EngineTie).out) = 1

\* a CURRENT save fails at the INSERT of sensor B, after the DELETEs and the
\* INSERTs of the shared row and of sensor A, with a CURRENT Reading stored
C30_Witness ==
    /\ op.name = "save"
    /\ op.raised
    /\ op.record_type = CURRENT
    /\ op.at = "sensor_b"
    /\ ~IsNone(lastSaved[CURRENT])
    /\ \E x \in tblReading : x.record_type = CURRENT

\* C29: compute_avg leaves its input unchanged: after the call the list
\* holds the same references in the same order, and every Reading object it
\* refers to, its sensor, sensor_b and RGB values included, equals what it
\* was before the call.
C29_ComputeAvgLeavesInputUnchanged ==
    ~IsNone(averaged) =>
        LET a == Val(averaged)
        IN  /\ a.held_after = a.held_before
            /\ \A i \in 1..Len(a.held_before) :
                  a.heap_after[a.held_before[i]] = a.heap_before[a.held_before[i]]

\* compute_avg has averaged three Readings, the first a dual-sensor one with
\* the secondary suite, and the sums differ from the first Reading
C29_Witness ==
    /\ ~IsNone(averaged)
    /\ Len(Val(averaged).held_before) = 3
    /\ Val(averaged).heap_before[1] = Sample(2, 1)
    /\ Val(averaged).result.sensor # Sample(2, 1).sensor

(***************************************************************************)
(* Claims about limits, the archive cycle, the store's keys and sessions   *)
(***************************************************************************)
\* the smaller of two naturals
Min(a, b) == IF a <= b THEN a ELSE b

\* C31: a fetch with limit L yields the first min(L, n) of the n Readings
\* the same fetch yields without a limit, each equal to the Reading the
\* unlimited fetch yields for its timestamp: a limit never cuts a
\* dual-sensor Reading down to its sensor A half.
C31_LimitCountsReadings ==
    (op.name = "fetch" /\ ~IsNone(op.limit)) =>
        LET full == fetch_readings(db, op.record_type, op.since_ts, op.max_ts,
                                   None, op.tie).out
        IN  /\ Len(op.out) = Min(Val(op.limit), Len(full))
            /\ \A i \in 1..Len(op.out) : i <= Len(full) => op.out[i] = full[i]

\* C32: the timestamps of the ARCHIVE saves the loop attempts are strictly
\* increasing: the timestamp of an attempted ARCHIVE save is above the one
\* attempted by the pass before it and above every ARCHIVE timestamp
\* already in the store, so the loop never attempts a key that is taken.
C32_ArchiveTimestampsIncrease ==
    [][(it'.name = "pass" /\ it' # it /\ ~IsNone(it'.archive)) =>
          LET ts == Val(it'.archive).r.time_of_reading
          IN  /\ \A x \in tblReading : x.record_type = ARCHIVE => x.timestamp < ts
              /\ (it.name = "pass" /\ ~IsNone(it.archive)) =>
                     Val(it.archive).r.time_of_reading < ts]_vars

\* the poll boundary a computed event aims at: the clock plus the sleep,
\* less the offset
Target(ne) == FSub(FAdd(ne.now, ne.secs_to_event), F(cfg.pollfreq_offset))

\* x is a whole multiple of the archive interval
OnArchiveBoundary(x) == x[2] = 1 /\ x[1] % cfg.arcint_secs = 0

\* C33: with an offset of zero or more, every multiple of the archive
\* interval that elapses while the loop runs is the target of exactly one
\* pass, and that pass is an ARCHIVE pass: the targets of successive passes
\* increase, no multiple of the interval lies strictly between two
\* successive targets, and a pass is an ARCHIVE pass exactly when its target
\* is such a multiple.
C33_NoArchiveBoundarySkipped ==
    [][(cfg.pollfreq_offset >= 0 /\ ~IsNone(next_event) /\ ~IsNone(next_event')
            /\ next_event' # next_event) =>
          LET t0 == Target(Val(next_event))
              t1 == Target(Val(next_event'))
          IN  /\ FLess(t0, t1)
              /\ \A m \in 0..MaxClock + 120 :
                    m % cfg.arcint_secs = 0 => ~(FLess(t0, F(m)) /\ FLess(F(m), t1))
              /\ OnArchiveBoundary(t1) <=> Val(next_event').event = Event_ARCHIVE]_vars

\* C34: the archive list grows by exactly the sane Readings of the passes
\* and is emptied by exactly the successful ARCHIVE writes, and a record
\* written is the average of the whole list: so every ARCHIVE record
\* written averages exactly the sane Readings appended since the previous
\* successful ARCHIVE write, no Reading enters two written records, and the
\* Readings buffered at a failed write stay for the next record.
C34_ArchiveRecordAveragesTheBuffer ==
    [][(it'.name = "pass" /\ it' # it) =>
          LET buffered == IF it'.kept THEN Append(archive_readings, Val(it'.fetched))
                          ELSE archive_readings
              written  == ~IsNone(it'.archive) /\ ~Val(it'.archive).raised
          IN  /\ it'.archive_at_event = buffered
              /\ written =>
                    /\ buffered # << >>
                    /\ Val(it'.archive).r =
                          [compute_avg(buffered) EXCEPT
                              !.time_of_reading = Val(it'.archive).r.time_of_reading]
                    /\ archive_readings' = << >>
              /\ ~written => archive_readings' = buffered]_vars

\* an ARCHIVE record is written that averages three Readings: the ARCHIVE
\* write of the pass before had failed and its Readings were carried over
C34_Witness ==
    /\ it.name = "pass"
    /\ cfg.arcint_secs = cfg.pollfreq_secs
    /\ ~IsNone(it.archive)
    /\ ~Val(it.archive).raised
    /\ Len(it.archive_at_event) = 3
    /\ archive_readings = << >>

\* C35: the sleep length compute_next_event returns is never negative,
\* whatever the clock and whatever poll offset the configuration holds, so
\* sleep() never raises.
C35_SleepNeverNegative ==
    ~IsNone(next_event) => ~FLess(Val(next_event).secs_to_event, F(0))

\* rows a and b carry the same (tier, timestamp)
SameKey(a, b) == a.record_type = b.record_type /\ a.timestamp = b.timestamp

\* C36: in every state the save_reading calls reach, those that raised
\* included, every Sensor row has a Reading row with its (tier, timestamp),
\* every Reading row has a sensor-index-0 row with its (tier, timestamp),
\* and no sensor-index-1 row is without its sensor-index-0 row.
C36_ReferentialIntegrity ==
    /\ \A x \in tblSensor : \E r \in tblReading : SameKey(r, x)
    /\ \A r \in tblReading : \E x \in tblSensor : SameKey(r, x) /\ x.sensor = Sensor_A
    /\ \A x \in tblSensor :
          x.sensor = Sensor_B => \E y \in tblSensor : SameKey(x, y) /\ y.sensor = Sensor_A

\* a save has just failed at the INSERT of sensor A, after the INSERT of the
\* shared row, on a store that holds a dual-sensor Reading
C36_Witness ==
    /\ op.name = "save"
    /\ op.raised
    /\ op.at = "sensor_a"
    /\ \E x \in tblSensor : x.sensor = Sensor_B

\* C37: the tiers are isolated.  A save_reading call for one tier leaves the
\* rows of the other two tiers in both tables as they were, and a fetch of
\* one tier returns what it would return if the rows of the other tiers
\* were not there, also when another tier holds rows with the same
\* timestamp.
C37_TierIsolation ==
    [][/\ op'.name = "save" =>
              \A t \in RecordTypes \ {op'.record_type} :
                  /\ TierRows(tblReading', t) = TierRows(tblReading, t)
                  /\ TierRows(tblSensor', t) = TierRows(tblSensor, t)
       /\ op'.name = "fetch" =>
              LET own == [Reading |-> TierRows(tblReading', op'.record_type),
                          Sensor  |-> TierRows(tblSensor', op'.record_type)]
                  res == fetch_readings(own, op'.record_type, op'.since_ts,
                                        op'.max_ts, op'.limit, op'.tie)
              IN  op'.out = res.out /\ op'.raised = res.raised]_vars

\* CURRENT holds a dual-sensor Reading and ARCHIVE a single-sensor Reading
\* with the same timestamp, and a fetch of ARCHIVE has returned that one
\* Reading, without a sensor_b
C37_Witness ==
    /\ op.name = "fetch"
    /\ op.record_type = ARCHIVE
    /\ Len(op.out) = 1
    /\ IsNone(op.out[1].sensor_b)
    /\ \E x \in tblSensor :
          /\ x.record_type = CURRENT
          /\ x.sensor = Sensor_B
          /\ x.timestamp = op.out[1].time_of_reading

\* C38: the result of compute_avg has sensor_b exactly when every Reading of
\* its input has sensor_b; a Reading without it removes it for good, whatever
\* the later Readings carry.
C38_SensorBPresence ==
    ~IsNone(avg_reading) =>
        (~IsNone(Val(avg_reading).sensor_b)
            <=> \A i \in 1..Len(readings) : ~IsNone(readings[i].sensor_b))

\* C38 witness: three Readings averaged, the middle one without sensor_b and
\* the last one with it; the result has none.
C38_Witness ==
    /\ ~IsNone(avg_reading)
    /\ Len(readings) = 3
    /\ ~IsNone(readings[1].sensor_b)
    /\ IsNone(readings[2].sensor_b)
    /\ ~IsNone(readings[3].sensor_b)
    /\ IsNone(Val(avg_reading).sensor_b)

\* C39: a pass of the loop whose fetch and parse do not raise leaves the
\* session it fetched with in place, whether or not the Reading is kept and
\* whether or not the CURRENT save raises; a pass closes the session and
\* sets it to None exactly when the fetch or the parse raised; and a pass
\* that starts without a session builds a new one, never seen before, and
\* fetches with it, while a pass that starts with one fetches with that one.
C39_SessionKeptOrReset ==
    [][(it'.name = "pass") =>
          /\ IsNone(session') <=> it'.answer.raised
          /\ it'.session_closed <=> it'.answer.raised
          /\ ~it'.answer.raised => session' = Some(it'.session_used)
          /\ IsNone(session) =>
                /\ it'.session_created
                /\ it'.session_used = it'.sessions_made
                /\ (it.name = "pass") => it'.session_used > it.sessions_made
          /\ ~IsNone(session) =>
                /\ ~it'.session_created
                /\ it'.session_used = Val(session)
                /\ it'.sessions_made = it.sessions_made]_vars

\* C39 witness: the second session of the loop, built after a reset, has
\* outlived a pass; in the pass just over the fetch took the session as it
\* was and returned a Reading that the loop could not save as CURRENT.
C39_Witness ==
    /\ it.name = "pass"
    /\ session = Some(2)
    /\ ~it.session_created
    /\ ~it.answer.raised
    /\ it.kept
    /\ ~IsNone(it.current)
    /\ Val(it.current).raised

\* C39 second witness: an insane Reading leaves the session in place
C39_WitnessInsane ==
    /\ it.name = "pass"
    /\ ~it.first
    /\ ~IsNone(session)
    /\ ~it.session_created
    /\ ~it.answer.raised
    /\ ~IsNone(it.fetched)
    /\ ~it.kept

\* the arguments of a request line as parse_args keeps them
ArgsOf(requestline) ==
    parse_args(IF Len(requestline[2]) >= 2 THEN requestline[2][2] ELSE NoArgs)

\* C40: the Request parse_requestline returns has request type ERROR exactly
\* when its error text is set; it has type FETCH_ARCHIVE_RECORDS only with
\* since_ts given and parsed as an integer; and a /fetch-archive-records
\* request without since_ts, or with a since_ts, max_ts or limit that int()
\* rejects, has type ERROR.  The value of an argument is the one parse_args
\* keeps for its key.
C40_ErrorIffErrorText ==
    ~IsNone(served) =>
        LET requestline == Val(served).requestline
            request     == Val(served).request
            args_dict   == ArgsOf(requestline)
        IN  /\ (request.request_type = "ERROR") <=> ~IsNone(request.error)
            /\ (request.request_type = "FETCH_ARCHIVE_RECORDS") =>
                  /\ "since_ts" \in DOMAIN args_dict
                  /\ ~IsNone(request.since_ts)
                  /\ request.since_ts = int_of_str(args_dict["since_ts"])
            /\ (/\ requestline[2][1] = "/fetch-archive-records"
                /\ \/ "since_ts" \notin DOMAIN args_dict
                   \/ \E key \in {"since_ts", "max_ts", "limit"} \cap DOMAIN args_dict :
                         IsNone(int_of_str(args_dict[key])))
                  => request.request_type = "ERROR"

\* C40 witness: /fetch-archive-records?since_ts=1,limit=x was parsed: since_ts
\* is an integer, limit is not, and the Request is an ERROR with its text set
C40_Witness ==
    /\ ~IsNone(served)
    /\ Val(served).requestline[2] = <<"/fetch-archive-records",
                                      <<<<"since_ts", "1">>, <<"limit", "x">>>>>>
    /\ Val(served).request.request_type = "ERROR"
    /\ Val(served).request.since_ts = Some(1)
    /\ ~IsNone(Val(served).request.error)

=========================================================================
